---- MODULE Spec2Model ----
(***************************************************************************)
(* A model of the ServeMixer request multiplexer (src/mixer.go): the       *)
(* segment splitter, the converter registry, the trie of nodes kept on a   *)
(* heap of node objects, the copy-on-write insert, Handle and Handler.     *)
(*                                                                         *)
(* A Go string is a sequence of one-character strings, so that splitting,  *)
(* prefix tests and conversions are computed and not assumed.              *)
(***************************************************************************)
EXTENDS Integers, Sequences, FiniteSets, TLC

----------------------------------------------------------------------------
(* Bounds of the model *)

\* the live tree holds at most this many installed handlers
MaxRoutes == 2

\* a pattern or a request path has at most this many segments
MaxSegs == 2

\* a string given to splitURL alone has at most this many bytes
MaxLen == 5

\* when calls overlap, at most this many Handle calls get as far as insert
MaxCalls == 3

----------------------------------------------------------------------------
(* Program constants *)

pathToken == "/"

typeToken == ":"

other == 0

param == 1

slash == 2

root == 3

\* nil of a pointer to a node or to a handler table
NilAddr == <<>>

\* nil of a *convert and of an error
Nil == "nil"

\* nil of an http.Handler; the handlers are 1, 2, ...
NilHandler == 0

ErrMethod == "invalid method"

ErrHandler == "nil handler"

ErrPattern == "invalid pattern"

ErrDuplicate == "duplicate handler"

ErrNotFound == "not found"

ErrPathParam == "invalid path param"

ErrMultiplePathParam == "multiple types for path param"

\* the methods Handle lets through
AllowedMethods == {"GET", "HEAD", "POST", "PUT", "PATCH", "DELETE", "OPTIONS"}

----------------------------------------------------------------------------
(* Strings *)

\* strings.HasPrefix(s, pathToken)
HasPrefix(s) == Len(s) >= 1 /\ s[1] = pathToken

\* s[:1]
FirstByte(s) == IF Len(s) = 0 THEN <<>> ELSE <<s[1]>>

\* s[1:]
Rest(s) == SubSeq(s, 2, Len(s))

RECURSIVE Split(_, _)
\* strings.Split(s, sep) for a one-byte separator
Split(s, sep) ==
    IF \A i \in 1..Len(s) : s[i] # sep
    THEN <<s>>
    ELSE LET k == CHOOSE i \in 1..Len(s) :
                     s[i] = sep /\ \A j \in 1..(i - 1) : s[j] # sep
         IN  <<SubSeq(s, 1, k - 1)>> \o Split(SubSeq(s, k + 1, Len(s)), sep)

\* splitURL had it looked for empty pieces before it put the slash in the
\* place of the last one
splitURL_checkFirst(url) ==
    IF ~HasPrefix(url)
    THEN [parts |-> <<>>, err |-> ErrPattern]
    ELSE LET raw   == Split(Rest(url), pathToken)
             parts == IF raw[Len(raw)] = <<>>
                      THEN [raw EXCEPT ![Len(raw)] = <<pathToken>>]
                      ELSE raw
         IN  IF \E i \in 1..Len(raw) : raw[i] = <<>>
             THEN [parts |-> parts, err |-> ErrPattern]
             ELSE [parts |-> parts, err |-> Nil]

\* splitURL had it dropped the empty piece after a trailing slash
splitURL_dropSlash(url) ==
    IF ~HasPrefix(url)
    THEN [parts |-> <<>>, err |-> ErrPattern]
    ELSE LET raw   == Split(Rest(url), pathToken)
             parts == IF raw[Len(raw)] = <<>> /\ Len(raw) > 1
                      THEN SubSeq(raw, 1, Len(raw) - 1)
                      ELSE raw
         IN  IF \E i \in 1..Len(parts) : parts[i] = <<>>
             THEN [parts |-> parts, err |-> ErrPattern]
             ELSE [parts |-> parts, err |-> Nil]

\* splitURL had it returned no part whenever it returns the error
splitURL_noParts(url) ==
    IF ~HasPrefix(url)
    THEN [parts |-> <<>>, err |-> ErrPattern]
    ELSE LET raw   == Split(Rest(url), pathToken)
             parts == IF raw[Len(raw)] = <<>>
                      THEN [raw EXCEPT ![Len(raw)] = <<pathToken>>]
                      ELSE raw
         IN  IF \E i \in 1..Len(parts) : parts[i] = <<>>
             THEN [parts |-> <<>>, err |-> ErrPattern]
             ELSE [parts |-> parts, err |-> Nil]

\* splitURL: the parts and the error
splitURL(url) ==
    IF ~HasPrefix(url)
    THEN [parts |-> <<>>, err |-> ErrPattern]
    ELSE LET raw   == Split(Rest(url), pathToken)
             parts == IF raw[Len(raw)] = <<>>
                      THEN [raw EXCEPT ![Len(raw)] = <<pathToken>>]
                      ELSE raw
         IN  IF \E i \in 1..Len(parts) : parts[i] = <<>>
             THEN [parts |-> parts, err |-> ErrPattern]
             ELSE [parts |-> parts, err |-> Nil]

----------------------------------------------------------------------------
(* Converters *)

Digits == ("0" :> 0) @@ ("1" :> 1) @@ ("2" :> 2) @@ ("3" :> 3) @@ ("4" :> 4)
          @@ ("5" :> 5) @@ ("6" :> 6) @@ ("7" :> 7) @@ ("8" :> 8) @@ ("9" :> 9)

RECURSIVE DecimalValue(_)
DecimalValue(s) ==
    IF Len(s) = 0 THEN 0
    ELSE 10 * DecimalValue(SubSeq(s, 1, Len(s) - 1)) + Digits[s[Len(s)]]

\* strconv.Atoi had it taken no sign
Atoi_unsigned(s) ==
    IF Len(s) = 0 \/ \E i \in 1..Len(s) : s[i] \notin DOMAIN Digits
    THEN [val |-> [int |-> 0], err |-> TRUE]
    ELSE [val |-> [int |-> DecimalValue(s)], err |-> FALSE]

\* strconv.Atoi on strings short enough not to overflow an int
Atoi(s) ==
    LET signed == Len(s) >= 1 /\ s[1] \in {"+", "-"}
        body   == IF signed THEN Rest(s) ELSE s
    IN  IF Len(body) = 0 \/ \E i \in 1..Len(body) : body[i] \notin DOMAIN Digits
        THEN [val |-> [int |-> 0], err |-> TRUE]
        ELSE [val |-> [int |-> IF signed /\ s[1] = "-"
                               THEN 0 - DecimalValue(body)
                               ELSE DecimalValue(body)],
              err |-> FALSE]

intConv(s) == Atoi(s)

strConv(s) == [val |-> [str |-> s], err |-> FALSE]

\* the registry had NewServeMixer given the empty name a pointer of its own
\* to strConv
converters_ownEmpty ==
    (<<>> :> "sc0") @@ (<<"s", "t", "r">> :> "sc") @@ (<<"i", "n", "t">> :> "ic")

\* the registry NewServeMixer builds: "sc" and "ic" are the two *convert pointers
converters ==
    (<<>> :> "sc") @@ (<<"s", "t", "r">> :> "sc") @@ (<<"i", "n", "t">> :> "ic")

\* mix.converters[name], nil for a missing key
lookup(name) == IF name \in DOMAIN converters THEN converters[name] ELSE Nil

\* (*conv)(s)
convert(conv, s) == IF conv = "ic" THEN intConv(s) ELSE strConv(s)

----------------------------------------------------------------------------
(* The heap of nodes.  An address is <<g, path>>: g names the insert call  *)
(* that allocated the object, path the place it was allocated for.  A      *)
(* node is [tid, conv, Methods, ChildrenNil, Children]; Methods is the     *)
(* address of a handler table or NilAddr; Children maps a key to the       *)
(* address of the child, and ChildrenNil tells a nil map from an empty     *)
(* one.                                                                    *)

NoChildren == [k \in {} |-> NilAddr]

newNode(tid, conv) ==
    [tid |-> tid, conv |-> conv, Methods |-> NilAddr,
     ChildrenNil |-> TRUE, Children |-> NoChildren]

RECURSIVE Reach(_, _)
\* the addresses of n and of the nodes below it
Reach(ns, n) ==
    {n} \cup UNION {Reach(ns, ns[n].Children[k]) : k \in DOMAIN ns[n].Children}

\* (n *node) deepcopy had it left the handler tables behind
nodeDeepcopy_noTables(ns, n, g) ==
    LET old   == Reach(ns, n)
        cp(x) == <<g, x[2]>>
    IN  [c \in {cp(x) : x \in old} |->
            LET x == CHOOSE y \in old : cp(y) = c
                v == ns[x]
            IN  [v EXCEPT !.Methods = NilAddr,
                          !.Children = [k \in DOMAIN v.Children |->
                                           cp(v.Children[k])]]]
        @@ ns

\* (n *node) deepcopy had it copied the node alone and kept its Children,
\* the nodes below being the ones of the original
nodeDeepcopy_shallow(ns, n, g) ==
    (<<g, n[2]>> :> ns[n]) @@ ns

\* (n *node) deepcopy: the heap with a copy of every node from n down, each
\* copy a new object of generation g; Methods and conv are copied as links
nodeDeepcopy(ns, n, g) ==
    LET old   == Reach(ns, n)
        cp(x) == <<g, x[2]>>
    IN  [c \in {cp(x) : x \in old} |->
            LET x == CHOOSE y \in old : cp(y) = c
                v == ns[x]
            IN  [v EXCEPT !.Children = [k \in DOMAIN v.Children |->
                                           cp(v.Children[k])]]]
        @@ ns

\* (t *tree) deepcopy had it handed out the tree itself
deepcopy_alias(ns, r, g) == [nodes |-> ns, root |-> r]

\* (t *tree) deepcopy: the heap after the copy and the root of the copy
deepcopy(ns, r, g) == [nodes |-> nodeDeepcopy(ns, r, g), root |-> <<g, r[2]>>]

\* (n *node) find: a child of n with this type ID, or nil
find(ns, n, tid) ==
    IF \E k \in DOMAIN ns[n].Children : ns[ns[n].Children[k]].tid = tid
    THEN CHOOSE c \in {ns[n].Children[k] : k \in DOMAIN ns[n].Children} :
             ns[c].tid = tid
    ELSE NilAddr

\* (n *node) insert had it looked for no child of the other kind
nodeInsert_unchecked(ns, n, key, in, a) ==
    [ok |-> TRUE,
     nodes |-> (a :> in) @@
               [ns EXCEPT ![n].ChildrenNil = FALSE,
                          ![n].Children = (key :> a) @@ @]]

\* (n *node) insert had its switch looked for a child of the same kind
nodeInsert_sameKind(ns, n, key, in, a) ==
    LET found == IF in.tid = param THEN find(ns, n, param)
                 ELSE IF in.tid = other THEN find(ns, n, other)
                 ELSE NilAddr
    IN  IF found # NilAddr
        THEN [ok |-> FALSE, nodes |-> ns]
        ELSE [ok |-> TRUE,
              nodes |-> (a :> in) @@
                        [ns EXCEPT ![n].ChildrenNil = FALSE,
                                   ![n].Children = (key :> a) @@ @]]

\* (n *node) insert had it made a new Children map for the child, whether
\* or not n had one
nodeInsert_replace(ns, n, key, in, a) ==
    LET found == IF in.tid = param THEN find(ns, n, other)
                 ELSE IF in.tid = other THEN find(ns, n, param)
                 ELSE NilAddr
    IN  IF found # NilAddr
        THEN [ok |-> FALSE, nodes |-> ns]
        ELSE [ok |-> TRUE,
              nodes |-> (a :> in) @@
                        [ns EXCEPT ![n].ChildrenNil = FALSE,
                                   ![n].Children = (key :> a)]]

\* (n *node) insert had it looked for a child of kind other before adding
\* a path param, and for nothing before adding a node of kind other
nodeInsert_oneWay(ns, n, key, in, a) ==
    LET found == IF in.tid = param THEN find(ns, n, other) ELSE NilAddr
    IN  IF found # NilAddr
        THEN [ok |-> FALSE, nodes |-> ns]
        ELSE [ok |-> TRUE,
              nodes |-> (a :> in) @@
                        [ns EXCEPT ![n].ChildrenNil = FALSE,
                                   ![n].Children = (key :> a) @@ @]]

\* (n *node) insert: ok, and the heap with the node in stored at address a
\* as the child key of n
nodeInsert(ns, n, key, in, a) ==
    LET found == IF in.tid = param THEN find(ns, n, other)
                 ELSE IF in.tid = other THEN find(ns, n, param)
                 ELSE NilAddr
    IN  IF found # NilAddr
        THEN [ok |-> FALSE, nodes |-> ns]
        ELSE [ok |-> TRUE,
              nodes |-> (a :> in) @@
                        [ns EXCEPT ![n].ChildrenNil = FALSE,
                                   ![n].Children = (key :> a) @@ @]]

\* the body of the loop of insert had it let any path param go down to a
\* child that holds the converter of the empty name
insertPart_widenEmpty(ns, curr, part, g) ==
    LET first == FirstByte(part)
        conv  == IF first = <<typeToken>> THEN lookup(Rest(part)) ELSE Nil
        in    == IF first = <<pathToken>> THEN newNode(slash, Nil)
                 ELSE IF first = <<typeToken>> THEN newNode(param, conv)
                 ELSE newNode(other, Nil)
        key   == IF first = <<typeToken>> THEN <<typeToken>> ELSE part
        ok    == key \in DOMAIN ns[curr].Children
        a     == <<g, Append(curr[2], key)>>
        ins   == nodeInsert(ns, curr, key, in, a)
    IN  IF first = <<typeToken>> /\ conv = Nil
        THEN [err |-> ErrPathParam, nodes |-> ns, curr |-> curr]
        ELSE IF /\ ok
                /\ ns[ns[curr].Children[key]].conv # in.conv
                /\ ns[ns[curr].Children[key]].conv # lookup(<<>>)
        THEN [err |-> ErrMultiplePathParam, nodes |-> ns, curr |-> curr]
        ELSE IF ok
        THEN [err |-> Nil, nodes |-> ns, curr |-> ns[curr].Children[key]]
        ELSE IF ~ins.ok
        THEN [err |-> ErrMultiplePathParam, nodes |-> ns, curr |-> curr]
        ELSE [err |-> Nil, nodes |-> ins.nodes, curr |-> a]

\* the body of the loop of insert had it looked at the children of curr
\* before it looked at what the registry gave for the name
insertPart_lateLookup(ns, curr, part, g) ==
    LET first == FirstByte(part)
        conv  == IF first = <<typeToken>> THEN lookup(Rest(part)) ELSE Nil
        in    == IF first = <<pathToken>> THEN newNode(slash, Nil)
                 ELSE IF first = <<typeToken>> THEN newNode(param, conv)
                 ELSE newNode(other, Nil)
        key   == IF first = <<typeToken>> THEN <<typeToken>> ELSE part
        ok    == key \in DOMAIN ns[curr].Children
        a     == <<g, Append(curr[2], key)>>
        ins   == nodeInsert(ns, curr, key, in, a)
    IN  IF ok /\ ns[ns[curr].Children[key]].conv # in.conv
        THEN [err |-> ErrMultiplePathParam, nodes |-> ns, curr |-> curr]
        ELSE IF ~ok /\ ~ins.ok
        THEN [err |-> ErrMultiplePathParam, nodes |-> ns, curr |-> curr]
        ELSE IF first = <<typeToken>> /\ conv = Nil
        THEN [err |-> ErrPathParam, nodes |-> ns, curr |-> curr]
        ELSE IF ok
        THEN [err |-> Nil, nodes |-> ns, curr |-> ns[curr].Children[key]]
        ELSE [err |-> Nil, nodes |-> ins.nodes, curr |-> a]

\* the body of the loop of insert had it gone down to the child it found
\* without comparing converters
insertPart_anyConv(ns, curr, part, g) ==
    LET first == FirstByte(part)
        conv  == IF first = <<typeToken>> THEN lookup(Rest(part)) ELSE Nil
        in    == IF first = <<pathToken>> THEN newNode(slash, Nil)
                 ELSE IF first = <<typeToken>> THEN newNode(param, conv)
                 ELSE newNode(other, Nil)
        key   == IF first = <<typeToken>> THEN <<typeToken>> ELSE part
        ok    == key \in DOMAIN ns[curr].Children
        a     == <<g, Append(curr[2], key)>>
        ins   == nodeInsert(ns, curr, key, in, a)
    IN  IF first = <<typeToken>> /\ conv = Nil
        THEN [err |-> ErrPathParam, nodes |-> ns, curr |-> curr]
        ELSE IF ok
        THEN [err |-> Nil, nodes |-> ns, curr |-> ns[curr].Children[key]]
        ELSE IF ~ins.ok
        THEN [err |-> ErrMultiplePathParam, nodes |-> ns, curr |-> curr]
        ELSE [err |-> Nil, nodes |-> ins.nodes, curr |-> a]

\* the body of the loop of insert had it kept the part of a path param as
\* the key, name and all
insertPart_rawKey(ns, curr, part, g) ==
    LET first == FirstByte(part)
        conv  == IF first = <<typeToken>> THEN lookup(Rest(part)) ELSE Nil
        in    == IF first = <<pathToken>> THEN newNode(slash, Nil)
                 ELSE IF first = <<typeToken>> THEN newNode(param, conv)
                 ELSE newNode(other, Nil)
        key   == part
        ok    == key \in DOMAIN ns[curr].Children
        a     == <<g, Append(curr[2], key)>>
        ins   == nodeInsert(ns, curr, key, in, a)
    IN  IF first = <<typeToken>> /\ conv = Nil
        THEN [err |-> ErrPathParam, nodes |-> ns, curr |-> curr]
        ELSE IF ok /\ ns[ns[curr].Children[key]].conv # in.conv
        THEN [err |-> ErrMultiplePathParam, nodes |-> ns, curr |-> curr]
        ELSE IF ok
        THEN [err |-> Nil, nodes |-> ns, curr |-> ns[curr].Children[key]]
        ELSE IF ~ins.ok
        THEN [err |-> ErrMultiplePathParam, nodes |-> ns, curr |-> curr]
        ELSE [err |-> Nil, nodes |-> ins.nodes, curr |-> a]

\* the body of the loop of (mix *ServeMixer) insert for one part, at node
\* curr of the copy: the error, the heap and the next curr
insertPart(ns, curr, part, g) ==
    LET first == FirstByte(part)
        conv  == IF first = <<typeToken>> THEN lookup(Rest(part)) ELSE Nil
        in    == IF first = <<pathToken>> THEN newNode(slash, Nil)
                 ELSE IF first = <<typeToken>> THEN newNode(param, conv)
                 ELSE newNode(other, Nil)
        key   == IF first = <<typeToken>> THEN <<typeToken>> ELSE part
        ok    == key \in DOMAIN ns[curr].Children
        a     == <<g, Append(curr[2], key)>>
        ins   == nodeInsert(ns, curr, key, in, a)
    IN  IF first = <<typeToken>> /\ conv = Nil
        THEN [err |-> ErrPathParam, nodes |-> ns, curr |-> curr]
        ELSE IF ok /\ ns[ns[curr].Children[key]].conv # in.conv
        THEN [err |-> ErrMultiplePathParam, nodes |-> ns, curr |-> curr]
        ELSE IF ok
        THEN [err |-> Nil, nodes |-> ns, curr |-> ns[curr].Children[key]]
        ELSE IF ~ins.ok
        THEN [err |-> ErrMultiplePathParam, nodes |-> ns, curr |-> curr]
        ELSE [err |-> Nil, nodes |-> ins.nodes, curr |-> a]

RECURSIVE insertLoop(_, _, _, _, _)
\* what the loop of insert does once its body has come out as s for part
\* i: return the error, or go on to the next part
insertNext(s, parts, i, g) ==
    IF s.err # Nil THEN s
    ELSE insertLoop(s.nodes, s.curr, parts, i + 1, g)

\* the loop of insert from part i on
insertLoop(ns, curr, parts, i, g) ==
    IF i > Len(parts)
    THEN [err |-> Nil, nodes |-> ns, curr |-> curr]
    ELSE insertNext(insertPart(ns, curr, parts[i], g), parts, i, g)

\* the end of insert had it made the handler table of the last node without
\* looking whether the node has one
insertEnd_newTable(w, ts, r, croot, g) ==
    IF w.err # Nil
    THEN [err |-> w.err, nodes |-> w.nodes, tables |-> ts, root |-> r,
          methods |-> NilAddr]
    ELSE [err |-> Nil,
          nodes |-> [w.nodes EXCEPT ![w.curr].Methods = <<g, w.curr[2]>>],
          tables |-> (<<g, w.curr[2]>> :> [m \in {} |-> NilHandler]) @@ ts,
          root |-> croot,
          methods |-> <<g, w.curr[2]>>]

\* the end of insert had it made a handler table for every node of the copy
\* that has none, and not for the last node alone
insertEnd_allTables(w, ts, r, croot, g) ==
    IF w.err # Nil
    THEN [err |-> w.err, nodes |-> w.nodes, tables |-> ts, root |-> r,
          methods |-> NilAddr]
    ELSE LET bare == {x \in Reach(w.nodes, croot) :
                          w.nodes[x].Methods = NilAddr}
         IN  [err |-> Nil,
              nodes |-> [x \in DOMAIN w.nodes |->
                            IF x \in bare
                            THEN [w.nodes[x] EXCEPT !.Methods = <<g, x[2]>>]
                            ELSE w.nodes[x]],
              tables |-> [t \in {<<g, x[2]>> : x \in bare} |->
                             [m \in {} |-> NilHandler]] @@ ts,
              root |-> croot,
              methods |-> IF w.curr \in bare THEN <<g, w.curr[2]>>
                          ELSE w.nodes[w.curr].Methods]

\* the end of insert, once the loop has come out as w on the copy whose
\* root is croot: the error (mix.tree keeps the root r), or the handler
\* table of the last node, made if the node has none, and the copy as the
\* live tree
insertEnd(w, ts, r, croot, g) ==
    IF w.err # Nil
    THEN [err |-> w.err, nodes |-> w.nodes, tables |-> ts, root |-> r,
          methods |-> NilAddr]
    ELSE IF w.nodes[w.curr].Methods = NilAddr
    THEN [err |-> Nil,
          nodes |-> [w.nodes EXCEPT ![w.curr].Methods = <<g, w.curr[2]>>],
          tables |-> (<<g, w.curr[2]>> :> [m \in {} |-> NilHandler]) @@ ts,
          root |-> croot,
          methods |-> <<g, w.curr[2]>>]
    ELSE [err |-> Nil, nodes |-> w.nodes, tables |-> ts, root |-> croot,
          methods |-> w.nodes[w.curr].Methods]

\* insert on the copy copy_ of the live tree
insertOn(copy_, ts, r, parts, g) ==
    insertEnd(insertLoop(copy_.nodes, copy_.root, parts, 1, g), ts, r,
              copy_.root, g)

\* (mix *ServeMixer) insert, as call g, on the heap ns with the handler
\* tables ts and the live root r: the error, the heap, the tables, the live
\* root afterwards and the address of the returned handler table
insert(ns, ts, r, parts, g) == insertOn(deepcopy(ns, r, g), ts, r, parts, g)

\* methods[method] of a handler table, nil for a missing key
slot(table, method) ==
    IF method \in DOMAIN table THEN table[method] ELSE NilHandler

\* the end of Handle had it stored the handler without looking at the slot
handleInstall_overwrite(ins, method, handler) ==
    IF ins.err # Nil
    THEN [err |-> ins.err, nodes |-> ins.nodes, tables |-> ins.tables,
          root |-> ins.root]
    ELSE [err |-> Nil, nodes |-> ins.nodes,
          tables |-> [ins.tables EXCEPT
                         ![ins.methods] = (method :> handler) @@ @],
          root |-> ins.root]

\* the end of Handle had it stored a table of its own, with the handler
\* alone in it, in place of the table insert returned
handleInstall_replaceTable(ins, method, handler) ==
    IF ins.err # Nil
    THEN [err |-> ins.err, nodes |-> ins.nodes, tables |-> ins.tables,
          root |-> ins.root]
    ELSE IF slot(ins.tables[ins.methods], method) # NilHandler
    THEN [err |-> ErrDuplicate, nodes |-> ins.nodes, tables |-> ins.tables,
          root |-> ins.root]
    ELSE [err |-> Nil, nodes |-> ins.nodes,
          tables |-> [ins.tables EXCEPT ![ins.methods] = (method :> handler)],
          root |-> ins.root]

\* the end of Handle, once insert has come out as ins: the panic on its
\* error, the duplicate check, the store of the handler
handleInstall(ins, method, handler) ==
    IF ins.err # Nil
    THEN [err |-> ins.err, nodes |-> ins.nodes, tables |-> ins.tables,
          root |-> ins.root]
    ELSE IF slot(ins.tables[ins.methods], method) # NilHandler
    THEN [err |-> ErrDuplicate, nodes |-> ins.nodes, tables |-> ins.tables,
          root |-> ins.root]
    ELSE [err |-> Nil, nodes |-> ins.nodes,
          tables |-> [ins.tables EXCEPT
                         ![ins.methods] = (method :> handler) @@ @],
          root |-> ins.root]

\* Handle had it let CONNECT through as well
HandleCall_allowConnect(ns, ts, r, method, pattern, handler, g) ==
    IF method \notin AllowedMethods \cup {"CONNECT"}
    THEN [err |-> ErrMethod, nodes |-> ns, tables |-> ts, root |-> r]
    ELSE IF handler = NilHandler
    THEN [err |-> ErrHandler, nodes |-> ns, tables |-> ts, root |-> r]
    ELSE IF splitURL(pattern).err # Nil
    THEN [err |-> ErrPattern, nodes |-> ns, tables |-> ts, root |-> r]
    ELSE handleInstall(insert(ns, ts, r, splitURL(pattern).parts, g),
                       method, handler)

\* Handle had it looked at the handler before it looked at the method
HandleCall_handlerFirst(ns, ts, r, method, pattern, handler, g) ==
    IF handler = NilHandler
    THEN [err |-> ErrHandler, nodes |-> ns, tables |-> ts, root |-> r]
    ELSE IF method \notin AllowedMethods
    THEN [err |-> ErrMethod, nodes |-> ns, tables |-> ts, root |-> r]
    ELSE IF splitURL(pattern).err # Nil
    THEN [err |-> ErrPattern, nodes |-> ns, tables |-> ts, root |-> r]
    ELSE handleInstall(insert(ns, ts, r, splitURL(pattern).parts, g),
                       method, handler)

\* (mix *ServeMixer) Handle, as call g: the error it panics with (Nil when
\* it returns), the heap, the tables and the live root afterwards
HandleCall(ns, ts, r, method, pattern, handler, g) ==
    IF method \notin AllowedMethods
    THEN [err |-> ErrMethod, nodes |-> ns, tables |-> ts, root |-> r]
    ELSE IF handler = NilHandler
    THEN [err |-> ErrHandler, nodes |-> ns, tables |-> ts, root |-> r]
    ELSE IF splitURL(pattern).err # Nil
    THEN [err |-> ErrPattern, nodes |-> ns, tables |-> ts, root |-> r]
    ELSE handleInstall(insert(ns, ts, r, splitURL(pattern).parts, g),
                       method, handler)

----------------------------------------------------------------------------
(* Dispatch *)

\* the body of the loop of Handler for one part, at a node whose Children
\* map reads as kids: whether the walk goes on, the node it moves to, and
\* whether the part was converted as a path param, and to what
handlerPart(ns, kids, part) ==
    IF part \in DOMAIN kids
    THEN [found |-> TRUE, node |-> kids[part], isParam |-> FALSE,
          val |-> [str |-> <<>>]]
    ELSE IF <<typeToken>> \notin DOMAIN kids
    THEN [found |-> FALSE, node |-> NilAddr, isParam |-> FALSE,
          val |-> [str |-> <<>>]]
    ELSE LET child == kids[<<typeToken>>]
             c     == convert(ns[child].conv, part)
         IN  [found |-> ~c.err, node |-> child, isParam |-> TRUE,
              val |-> c.val]

RECURSIVE handlerLoop(_, _, _, _, _, _, _)
\* the loop of Handler from part k on, at node n, with i params collected;
\* visited lists the nodes the loop has moved to, one per part consumed
handlerLoop(ns, n, parts, k, i, params, visited) ==
    IF k > Len(parts)
    THEN [found |-> TRUE, node |-> n, params |-> params, visited |-> visited]
    ELSE LET s == handlerPart(ns, ns[n].Children, parts[k])
         IN  IF ~s.found
             THEN [found |-> FALSE, node |-> n, params |-> params,
                   visited |-> visited]
             ELSE IF s.isParam
             THEN handlerLoop(ns, s.node, parts, k + 1, i + 1,
                              (i :> s.val) @@ params, Append(visited, s.node))
             ELSE handlerLoop(ns, s.node, parts, k + 1, i, params,
                              Append(visited, s.node))

\* a request context: old tells whether the caller had put a value of its
\* own in it, attached whether it holds a PathParamsCtxKey entry
Background == [old |-> FALSE, attached |-> FALSE, params |-> <<>>]

\* context.WithValue(ctx, PathParamsCtxKey, params)
WithPathParams(ctx, params) ==
    [ctx EXCEPT !.attached = TRUE, !.params = params]

\* Handler had it put the params in the request's context as it converted
\* them, whatever it returned in the end
HandlerCall_attachEarly(ns, ts, r, method, url, ctx) ==
    LET parts == splitURL(url).parts
        w     == handlerLoop(ns, r, parts, 1, 0, <<>>, <<>>)
        ms    == ns[w.node].Methods
        c     == IF DOMAIN w.params # {}
                 THEN WithPathParams(ctx, w.params) ELSE ctx
    IN  IF ~w.found
        THEN [h |-> NilHandler, err |-> ErrNotFound, ctx |-> c]
        ELSE IF ms = NilAddr \/ slot(ts[ms], method) = NilHandler
        THEN [h |-> NilHandler, err |-> ErrNotFound, ctx |-> c]
        ELSE [h |-> slot(ts[ms], method), err |-> Nil, ctx |-> c]

\* Handler had it, after its loop, looked only whether the node has a
\* handler table
HandlerCall_noSlotCheck(ns, ts, r, method, url, ctx) ==
    LET parts == splitURL(url).parts
        w     == handlerLoop(ns, r, parts, 1, 0, <<>>, <<>>)
        ms    == ns[w.node].Methods
    IN  IF ~w.found
        THEN [h |-> NilHandler, err |-> ErrNotFound, ctx |-> ctx]
        ELSE IF ms = NilAddr
        THEN [h |-> NilHandler, err |-> ErrNotFound, ctx |-> ctx]
        ELSE [h |-> slot(ts[ms], method), err |-> Nil,
              ctx |-> IF DOMAIN w.params # {}
                      THEN WithPathParams(ctx, w.params) ELSE ctx]

\* Handler had it, at a node with no handler for the method, fallen back on
\* a handler the node has for another method
HandlerCall_anyMethod(ns, ts, r, method, url, ctx) ==
    LET parts == splitURL(url).parts
        w     == handlerLoop(ns, r, parts, 1, 0, <<>>, <<>>)
        ms    == ns[w.node].Methods
    IN  IF ~w.found
        THEN [h |-> NilHandler, err |-> ErrNotFound, ctx |-> ctx]
        ELSE IF ms = NilAddr \/ DOMAIN ts[ms] = {}
        THEN [h |-> NilHandler, err |-> ErrNotFound, ctx |-> ctx]
        ELSE [h |-> IF slot(ts[ms], method) # NilHandler
                    THEN slot(ts[ms], method)
                    ELSE ts[ms][CHOOSE m \in DOMAIN ts[ms] : TRUE],
              err |-> Nil,
              ctx |-> IF DOMAIN w.params # {}
                      THEN WithPathParams(ctx, w.params) ELSE ctx]

\* (mix *ServeMixer) Handler on the tree below root r: the handler, the
\* error and the context the request has afterwards
HandlerCall(ns, ts, r, method, url, ctx) ==
    LET parts == splitURL(url).parts
        w     == handlerLoop(ns, r, parts, 1, 0, <<>>, <<>>)
        ms    == ns[w.node].Methods
    IN  IF ~w.found
        THEN [h |-> NilHandler, err |-> ErrNotFound, ctx |-> ctx]
        ELSE IF ms = NilAddr \/ slot(ts[ms], method) = NilHandler
        THEN [h |-> NilHandler, err |-> ErrNotFound, ctx |-> ctx]
        ELSE [h |-> slot(ts[ms], method), err |-> Nil,
              ctx |-> IF DOMAIN w.params # {}
                      THEN WithPathParams(ctx, w.params) ELSE ctx]

\* (mix *ServeMixer) ServeHTTP, given what Handler returned: the 404 of
\* http.NotFound and no handler called when the error is the not found
\* error, the call of h.ServeHTTP otherwise, which is a nil dereference
\* when h is nil
ServeHTTP(h, err) ==
    IF err = ErrNotFound
    THEN [reply |-> "404", called |-> NilHandler, crash |-> FALSE]
    ELSE [reply |-> "handler", called |-> h, crash |-> h = NilHandler]

----------------------------------------------------------------------------
(* Inputs *)

\* segments patterns are made of: two literals, path params of the three
\* names of the registry and of an unknown name, and the empty segment
PatternSegments ==
    { <<"a">>, <<"b">>, <<":", "i", "n", "t">>, <<":", "s", "t", "r">>,
      <<":">>, <<":", "m">>, <<>> }

\* segments request paths are made of: a word, a number, the two tokens
\* and the empty segment
RequestSegments == { <<"a">>, <<"7">>, <<typeToken>>, <<>> }

RECURSIVE Join(_)
\* "/" s1 "/" s2 ... "/" sn
Join(ss) ==
    IF Len(ss) = 0 THEN <<>> ELSE <<pathToken>> \o Head(ss) \o Join(Tail(ss))

\* the sequences of 1..n elements of S
SeqsUpTo(S, n) == UNION {[1..k -> S] : k \in 1..n}

\* the strings of up to MaxSegs segments of S, each after a slash, and the
\* segments of S alone (no slash to start with)
Strings(S) == {Join(ss) : ss \in SeqsUpTo(S, MaxSegs)} \cup S

Patterns == Strings(PatternSegments)

Paths == Strings(RequestSegments)

Methods == {"GET", "PUT", "CONNECT"}

Contexts == {Background, [Background EXCEPT !.old = TRUE]}

----------------------------------------------------------------------------
(* State *)

VARIABLES
    nodes,       \* the heap of node objects
    tables,      \* the heap of handler tables (node.Methods maps)
    tree,        \* mix.tree
    registered,  \* history: the <<method, pattern, handler>> of the Handle calls that returned
    last,        \* the last call: what it was given, what it returned, the
                 \* nodes it built and whether it changed anything
    reg,         \* when calls overlap: where each Handle call in progress is
    disp,        \* when calls overlap: where the Handler call in progress is
    hist         \* history: the insert calls made, the roots mix.tree has
                 \* held, the calls whose insert failed, the last nodes of
                 \* the inserts that got to the end, the calls that began
                 \* while no other Handle call was in progress

vars == <<nodes, tables, tree, registered, last, reg, disp, hist>>

\* the goroutines that call Handle
Registrars == {"r1"}

\* a goroutine not in a Handle call; err is what its last call ended with
IdleReg ==
    [pc |-> "idle", g |-> 0, method |-> "", pattern |-> <<>>,
     handler |-> NilHandler, parts |-> <<>>, i |-> 0, curr |-> NilAddr,
     croot |-> NilAddr, methods |-> NilAddr, err |-> Nil]

\* no Handler call in progress; h, err and params are what the last one
\* returned, root and obs what it read
IdleDisp ==
    [pc |-> "idle", method |-> "", parts |-> <<>>, k |-> 0, node |-> NilAddr,
     root |-> NilAddr, i |-> 0, params |-> <<>>, seen |-> {}, obs |-> <<>>,
     h |-> NilHandler, err |-> Nil]

\* what a call was given: the method, the pattern of Handle or the path of
\* the request of Handler, the handler of Handle
Args(method, url, handler) ==
    [method |-> method, url |-> url, handler |-> handler]

\* the number of handlers installed
Routes == Cardinality(registered)

\* what a call of Handle is given as its handler: nil, or a handler of its
\* own, which no earlier call has installed
Handlers == {NilHandler, Routes + 1}

\* Between two calls nothing but mix.tree points into the heap: objects no
\* longer reachable are collected, and the ones kept are named by their
\* place (generation 0), so that the next call's objects are generation 1.
Settle(ns, ts, r) ==
    LET live  == Reach(ns, r)
        re(a) == IF a = NilAddr THEN a ELSE <<0, a[2]>>
        liveT == {ns[x].Methods : x \in live} \ {NilAddr}
    IN  [nodes |-> [c \in {re(x) : x \in live} |->
                       LET x == CHOOSE y \in live : re(y) = c
                           v == ns[x]
                       IN  [v EXCEPT
                               !.Methods = re(v.Methods),
                               !.Children = [k \in DOMAIN v.Children |->
                                                re(v.Children[k])]]],
         tables |-> [c \in {re(t) : t \in liveT} |->
                        ts[CHOOSE t \in liveT : re(t) = c]],
         root |-> re(r)]

\* NewServeMixer
Init ==
    /\ nodes = (<<0, <<>>>> :> newNode(root, Nil))
    /\ tables = [t \in {} |-> <<>>]
    /\ tree = [root |-> <<0, <<>>>>]
    /\ registered = {}
    /\ last = [op |-> "NewServeMixer", args |-> Args("", <<>>, NilHandler),
               err |-> Nil, h |-> NilHandler, ctx |-> Background,
               ctx0 |-> Background, built |-> 1, changed |-> TRUE]
    /\ reg = [r \in Registrars |-> IdleReg]
    /\ disp = IdleDisp
    /\ hist = [calls |-> 0, published |-> {<<0, <<>>>>}, failed |-> {},
               terminals |-> {}, alone |-> {}]

\* A call that changed nothing leaves the program where the call found it:
\* what can follow it is what can follow the state it started from, and is
\* explored from there.
Settled == last.changed

\* the nodes call g allocated with new(node) in the loop of insert and
\* attached to its copy: the objects of ns that are no copy of a node of old
Built(old, ns, g) ==
    {a \in DOMAIN ns : a[1] = g /\ \A b \in DOMAIN old : b[2] # a[2]}

\* the state after a call of mix.Handle that came out as out, with st the
\* live tree it left
HandleDone(method, pattern, handler, out, st) ==
    /\ out.err = Nil => Routes < MaxRoutes
    /\ nodes' = st.nodes
    /\ tables' = st.tables
    /\ tree' = [root |-> st.root]
    /\ registered' = IF out.err = Nil
                     THEN registered \cup {<<method, pattern, handler>>}
                     ELSE registered
    /\ last' = [op |-> "Handle", args |-> Args(method, pattern, handler),
                err |-> out.err, h |-> NilHandler, ctx |-> Background,
                ctx0 |-> Background,
                built |-> Cardinality(Built(nodes, out.nodes, 1)),
                changed |-> \/ <<st.nodes, st.tables, st.root>>
                               # <<nodes, tables, tree.root>>
                            \/ out.err = Nil]
    /\ UNCHANGED <<reg, disp, hist>>

HandleReturn(method, pattern, handler, out) ==
    HandleDone(method, pattern, handler, out,
               Settle(out.nodes, out.tables, out.root))

\* one call of mix.Handle
Handle(method, pattern, handler) ==
    /\ Settled
    /\ HandleReturn(method, pattern, handler,
                    HandleCall(nodes, tables, tree.root, method, pattern,
                               handler, 1))

\* Handler had it made the Children map of the node its loop stopped at,
\* where that map is nil, as node.insert does before it adds a child
Handler_initChildren(method, url, ctx) ==
    LET out == HandlerCall(nodes, tables, tree.root, method, url, ctx)
        w   == handlerLoop(nodes, tree.root, splitURL(url).parts, 1, 0,
                           <<>>, <<>>)
    IN  /\ Settled
        /\ last' = [op |-> "Handler", args |-> Args(method, url, NilHandler),
                    err |-> out.err, h |-> out.h, ctx |-> out.ctx,
                    ctx0 |-> ctx, built |-> 0, changed |-> FALSE]
        /\ nodes' = [nodes EXCEPT ![w.node].ChildrenNil = FALSE]
        /\ UNCHANGED <<tables, tree, registered, reg, disp, hist>>

\* one call of mix.Handler, on a request whose URL.EscapedPath() is url and
\* whose context is ctx
Handler(method, url, ctx) ==
    LET out == HandlerCall(nodes, tables, tree.root, method, url, ctx)
    IN  /\ Settled
        /\ last' = [op |-> "Handler", args |-> Args(method, url, NilHandler),
                    err |-> out.err, h |-> out.h, ctx |-> out.ctx,
                    ctx0 |-> ctx, built |-> 0, changed |-> FALSE]
        /\ UNCHANGED <<nodes, tables, tree, registered, reg, disp, hist>>

\* a call of Handle or of Handler, on any input; Settled, the guard of both,
\* stands before the choice of the input
Next ==
    \/ /\ Settled
       /\ \E method \in Methods, pattern \in Patterns, handler \in Handlers :
              Handle(method, pattern, handler)
    \/ /\ Settled
       /\ \E method \in Methods, url \in Paths, ctx \in Contexts :
              Handler(method, url, ctx)

Spec == Init /\ [][Next]_vars

----------------------------------------------------------------------------
(* Overlapping calls.  A goroutine calls Handle while another calls        *)
(* Handler, and the two run statement by statement in any order.  The      *)
(* objects keep the addresses they were allocated at: insert call g        *)
(* allocates generation g, and nothing is renamed.                         *)
(*                                                                         *)
(* mixer.go takes no lock and uses no atomic: mix.tree is assigned         *)
(* (line 193) and read (line 247) as a plain variable, and so are the      *)
(* fields of the nodes.  For a Handler call that overlaps the Handle call  *)
(* that allocated a node, nothing orders its reads of the node's fields    *)
(* after the writes that filled them in, and the Go memory model lets      *)
(* such a read return the value the field had before: the zero value of    *)
(* the allocation.  A read is therefore a choice between the field's       *)
(* value and nil wherever the node's generation is not in the set seen     *)
(* of the Handle calls that had returned when the Handler call began.      *)

ConcPatterns ==
    { <<"/", "a">>, <<"/", "a", "/", ":", "i", "n", "t">>,
      <<"/", ":", "s", "t", "r">>, <<"/", "b", "/", ":", "m">>, <<"a">> }

ConcPaths == { <<"/", "a">>, <<"/", "a", "/", "7">>, <<"/", "b">> }

\* Handle up to the loop of insert: the checks of Handle (lines 201-221)
\* and the copy of the live tree (lines 150-151)
HandleBegin(r, method, pattern, handler) ==
    LET sp    == splitURL(pattern)
        g     == hist.calls + 1
        copy_ == deepcopy(nodes, tree.root, g)
        panic(e) == /\ reg' = [reg EXCEPT ![r] = [IdleReg EXCEPT !.err = e]]
                    /\ UNCHANGED <<nodes, hist>>
    IN  /\ reg[r].pc = "idle"
        /\ IF method \notin AllowedMethods THEN panic(ErrMethod)
           ELSE IF handler = NilHandler THEN panic(ErrHandler)
           ELSE IF sp.err # Nil THEN panic(ErrPattern)
           ELSE /\ hist.calls < MaxCalls
                /\ nodes' = copy_.nodes
                /\ reg' = [reg EXCEPT ![r] =
                              [pc |-> "walk", g |-> g, method |-> method,
                               pattern |-> pattern, handler |-> handler,
                               parts |-> sp.parts, i |-> 1,
                               curr |-> copy_.root, croot |-> copy_.root,
                               methods |-> NilAddr, err |-> Nil]]
                /\ hist' = [hist EXCEPT
                               !.calls = g,
                               !.alone =
                                   IF \A q \in DOMAIN reg \ {r} :
                                          reg[q].pc = "idle"
                                   THEN @ \cup {g} ELSE @]
        /\ UNCHANGED <<tables, tree, registered, last, disp>>

\* insert had it assigned its copy to mix.tree on its way out with an error
InsertStep_publishOnError(r) ==
    LET me == reg[r]
        s  == insertPart(nodes, me.curr, me.parts[me.i], me.g)
    IN  /\ me.pc = "walk"
        /\ me.i <= Len(me.parts)
        /\ IF s.err # Nil
           THEN /\ reg' = [reg EXCEPT ![r] = [IdleReg EXCEPT !.err = s.err]]
                /\ hist' = [hist EXCEPT !.failed = @ \cup {me.g}]
                /\ tree' = [root |-> me.croot]
                /\ UNCHANGED nodes
           ELSE /\ nodes' = s.nodes
                /\ reg' = [reg EXCEPT ![r].curr = s.curr, ![r].i = @ + 1]
                /\ UNCHANGED <<hist, tree>>
        /\ UNCHANGED <<tables, registered, last, disp>>

\* one turn of the loop of insert (lines 153-187)
InsertStep(r) ==
    LET me == reg[r]
        s  == insertPart(nodes, me.curr, me.parts[me.i], me.g)
    IN  /\ me.pc = "walk"
        /\ me.i <= Len(me.parts)
        /\ IF s.err # Nil
           THEN /\ reg' = [reg EXCEPT ![r] = [IdleReg EXCEPT !.err = s.err]]
                /\ hist' = [hist EXCEPT !.failed = @ \cup {me.g}]
                /\ UNCHANGED nodes
           ELSE /\ nodes' = s.nodes
                /\ reg' = [reg EXCEPT ![r].curr = s.curr, ![r].i = @ + 1]
                /\ UNCHANGED hist
        /\ UNCHANGED <<tables, tree, registered, last, disp>>

\* after the loop, the handler table of the last node (lines 189-191)
InsertEnd(r) ==
    LET me    == reg[r]
        t     == <<me.g, me.curr[2]>>
        fresh == nodes[me.curr].Methods = NilAddr
    IN  /\ me.pc = "walk"
        /\ me.i > Len(me.parts)
        /\ nodes' = IF fresh THEN [nodes EXCEPT ![me.curr].Methods = t]
                    ELSE nodes
        /\ tables' = IF fresh THEN (t :> [m \in {} |-> NilHandler]) @@ tables
                     ELSE tables
        /\ reg' = [reg EXCEPT ![r].pc = "publish",
                              ![r].methods = IF fresh THEN t
                                             ELSE nodes[me.curr].Methods]
        /\ UNCHANGED <<tree, registered, last, disp, hist>>

\* insert had it returned the handler table without the assignment of
\* line 193
Publish_noAssign(r) ==
    LET me == reg[r]
    IN  /\ me.pc = "publish"
        /\ reg' = [reg EXCEPT ![r].pc = "check"]
        /\ UNCHANGED <<nodes, tables, tree, registered, last, disp, hist>>

\* *mix.tree = *copy_ (line 193)
Publish(r) ==
    LET me == reg[r]
    IN  /\ me.pc = "publish"
        /\ tree' = [root |-> me.croot]
        /\ reg' = [reg EXCEPT ![r].pc = "check"]
        /\ hist' = [hist EXCEPT !.published = @ \cup {me.croot},
                                !.terminals = @ \cup {me.curr}]
        /\ UNCHANGED <<nodes, tables, registered, last, disp>>

\* methods[method] != nil (lines 228-230)
DuplicateCheck(r) ==
    LET me == reg[r]
    IN  /\ me.pc = "check"
        /\ reg' = IF slot(tables[me.methods], me.method) # NilHandler
                  THEN [reg EXCEPT ![r] = [IdleReg EXCEPT !.err = ErrDuplicate]]
                  ELSE [reg EXCEPT ![r].pc = "install"]
        /\ UNCHANGED <<nodes, tables, tree, registered, last, disp, hist>>

\* methods[method] = handler (line 232)
Install(r) ==
    LET me == reg[r]
    IN  /\ me.pc = "install"
        /\ tables' = [tables EXCEPT
                         ![me.methods] = (me.method :> me.handler) @@ @]
        /\ registered' = registered
                         \cup {<<me.method, me.pattern, me.handler>>}
        /\ reg' = [reg EXCEPT ![r] = IdleReg]
        /\ UNCHANGED <<nodes, tree, last, disp, hist>>

\* the Handle calls that had returned, NewServeMixer as call 0 among them
Returned ==
    (0..hist.calls) \ {reg[r].g : r \in {q \in Registrars : reg[q].pc # "idle"}}

\* Handler up to its loop (lines 243-248): the parts, and the root read
HandlerBegin(method, url) ==
    /\ disp.pc = "idle"
    /\ disp' = [pc |-> "walk", method |-> method,
                parts |-> splitURL(url).parts, k |-> 1, node |-> tree.root,
                root |-> tree.root, i |-> 0, params |-> <<>>,
                seen |-> Returned, obs |-> <<>>, h |-> NilHandler,
                err |-> Nil]
    /\ UNCHANGED <<nodes, tables, tree, registered, last, reg, hist>>

\* the loop of Handler had it moved to the child and looked the same part up
\* once more
HandlerStep_samePart(zero) ==
    LET n    == disp.node
        kids == IF zero THEN NoChildren ELSE nodes[n].Children
        s    == handlerPart(nodes, kids, disp.parts[disp.k])
        obs  == Append(disp.obs, [node |-> n, field |-> "Children",
                                  val |-> kids])
    IN  /\ disp.pc = "walk"
        /\ disp.k <= Len(disp.parts)
        /\ zero => n[1] \notin disp.seen
        /\ disp' = IF ~s.found
                   THEN [IdleDisp EXCEPT !.err = ErrNotFound, !.obs = obs,
                                         !.root = disp.root]
                   ELSE [disp EXCEPT
                            !.node = s.node, !.obs = obs,
                            !.i = IF s.isParam THEN @ + 1 ELSE @,
                            !.params = IF s.isParam
                                       THEN (disp.i :> s.val) @@ @ ELSE @]
        /\ UNCHANGED <<nodes, tables, tree, registered, last, reg, hist>>

\* one turn of the loop of Handler (lines 250-270); zero tells that the read
\* of node.Children returned the nil map of the allocation
HandlerStep(zero) ==
    LET n    == disp.node
        kids == IF zero THEN NoChildren ELSE nodes[n].Children
        s    == handlerPart(nodes, kids, disp.parts[disp.k])
        obs  == Append(disp.obs, [node |-> n, field |-> "Children",
                                  val |-> kids])
    IN  /\ disp.pc = "walk"
        /\ disp.k <= Len(disp.parts)
        /\ zero => n[1] \notin disp.seen
        /\ disp' = IF ~s.found
                   THEN [IdleDisp EXCEPT !.err = ErrNotFound, !.obs = obs,
                                         !.root = disp.root]
                   ELSE [disp EXCEPT
                            !.node = s.node, !.k = @ + 1, !.obs = obs,
                            !.i = IF s.isParam THEN @ + 1 ELSE @,
                            !.params = IF s.isParam
                                       THEN (disp.i :> s.val) @@ @ ELSE @]
        /\ UNCHANGED <<nodes, tables, tree, registered, last, reg, hist>>

\* after the loop (lines 272-280); zero tells that the read of node.Methods
\* returned the nil map of the allocation
HandlerEnd(zero) ==
    LET n   == disp.node
        ms  == IF zero THEN NilAddr ELSE nodes[n].Methods
        obs == Append(disp.obs, [node |-> n, field |-> "Methods", val |-> ms])
        h   == IF ms = NilAddr THEN NilHandler ELSE slot(tables[ms], disp.method)
    IN  /\ disp.pc = "walk"
        /\ disp.k > Len(disp.parts)
        /\ zero => n[1] \notin disp.seen
        /\ disp' = IF h = NilHandler
                   THEN [IdleDisp EXCEPT !.err = ErrNotFound, !.obs = obs,
                                         !.root = disp.root]
                   ELSE [IdleDisp EXCEPT !.h = h, !.obs = obs,
                                         !.root = disp.root,
                                         !.params = disp.params]
        /\ UNCHANGED <<nodes, tables, tree, registered, last, reg, hist>>

NextConc ==
    \/ \E r \in Registrars, method \in Methods, pattern \in ConcPatterns,
          handler \in {NilHandler, hist.calls + 1} :
           HandleBegin(r, method, pattern, handler)
    \/ \E r \in Registrars : InsertStep(r)
    \/ \E r \in Registrars : InsertEnd(r)
    \/ \E r \in Registrars : Publish(r)
    \/ \E r \in Registrars : DuplicateCheck(r)
    \/ \E r \in Registrars : Install(r)
    \/ \E method \in Methods, url \in ConcPaths : HandlerBegin(method, url)
    \/ \E zero \in BOOLEAN : HandlerStep(zero)
    \/ \E zero \in BOOLEAN : HandlerEnd(zero)

SpecConc == Init /\ [][NextConc]_vars

\* the same with every read returning the value stored: the overlapping
\* calls as they run when the memory is sequentially consistent
NextSeqCst ==
    \/ \E r \in Registrars, method \in Methods, pattern \in ConcPatterns,
          handler \in {NilHandler, hist.calls + 1} :
           HandleBegin(r, method, pattern, handler)
    \/ \E r \in Registrars : InsertStep(r)
    \/ \E r \in Registrars : InsertEnd(r)
    \/ \E r \in Registrars : Publish(r)
    \/ \E r \in Registrars : DuplicateCheck(r)
    \/ \E r \in Registrars : Install(r)
    \/ \E method \in Methods, url \in ConcPaths : HandlerBegin(method, url)
    \/ HandlerStep(FALSE)
    \/ HandlerEnd(FALSE)

SpecSeqCst == Init /\ [][NextSeqCst]_vars

----------------------------------------------------------------------------
(* Overlapping Handle calls.  Two goroutines call Handle, on patterns that *)
(* can stand in one tree, and the two calls run statement by statement in  *)
(* any order.                                                              *)

TwoRegistrars == {"r1", "r2"}

\* /a, /b, /a/:int and /a/: each can be registered with each of the others
TwoPatterns ==
    { <<"/", "a">>, <<"/", "b">>, <<"/", "a", "/", ":", "i", "n", "t">>,
      <<"/", "a", "/">> }

TwoMethods == {"GET", "PUT"}

\* NewServeMixer, and two goroutines about to call Handle
InitTwo ==
    /\ nodes = (<<0, <<>>>> :> newNode(root, Nil))
    /\ tables = [t \in {} |-> <<>>]
    /\ tree = [root |-> <<0, <<>>>>]
    /\ registered = {}
    /\ last = [op |-> "NewServeMixer", args |-> Args("", <<>>, NilHandler),
               err |-> Nil, h |-> NilHandler, ctx |-> Background,
               ctx0 |-> Background, built |-> 1, changed |-> TRUE]
    /\ reg = [r \in TwoRegistrars |-> IdleReg]
    /\ disp = IdleDisp
    /\ hist = [calls |-> 0, published |-> {<<0, <<>>>>}, failed |-> {},
               terminals |-> {}, alone |-> {}]

NextTwo ==
    \/ \E r \in TwoRegistrars, method \in TwoMethods, pattern \in TwoPatterns :
           HandleBegin(r, method, pattern, hist.calls + 1)
    \/ \E r \in TwoRegistrars : InsertStep(r)
    \/ \E r \in TwoRegistrars : InsertEnd(r)
    \/ \E r \in TwoRegistrars : Publish(r)
    \/ \E r \in TwoRegistrars : DuplicateCheck(r)
    \/ \E r \in TwoRegistrars : Install(r)

SpecTwo == InitTwo /\ [][NextTwo]_vars

----------------------------------------------------------------------------
(* splitURL alone, on every string of up to MaxLen bytes of an alphabet of *)
(* the slash and two letters                                               *)

Bytes == {pathToken, "a", "b"}

Urls == UNION {[1..n -> Bytes] : n \in 0..MaxLen}

\* a string is chosen; nothing else exists but the mixer NewServeMixer made
InitSplit ==
    /\ nodes = (<<0, <<>>>> :> newNode(root, Nil))
    /\ tables = [t \in {} |-> <<>>]
    /\ tree = [root |-> <<0, <<>>>>]
    /\ registered = {}
    /\ \E url \in Urls :
           last = [op |-> "url", args |-> Args("", url, NilHandler),
                   parts |-> <<>>, err |-> Nil]
    /\ reg = [r \in Registrars |-> IdleReg]
    /\ disp = IdleDisp
    /\ hist = [calls |-> 0, published |-> {<<0, <<>>>>}, failed |-> {},
               terminals |-> {}, alone |-> {}]

\* one call of splitURL, on the string chosen
SplitURL ==
    /\ last.op = "url"
    /\ last' = [last EXCEPT !.op = "splitURL",
                            !.parts = splitURL(last.args.url).parts,
                            !.err = splitURL(last.args.url).err]
    /\ UNCHANGED <<nodes, tables, tree, registered, reg, disp, hist>>

NextSplit == SplitURL

SpecSplit == InitSplit /\ [][NextSplit]_vars

----------------------------------------------------------------------------
(* Vocabulary of the properties *)

\* the live tree of the state
Tree == [nodes |-> nodes, tables |-> tables, root |-> tree.root]

\* the keys of the children of node x that are of kind tid
ChildrenOfKind(ns, x, tid) ==
    {k \in DOMAIN ns[x].Children : ns[ns[x].Children[k]].tid = tid}

\* the kind and the key insert gives a part
kindOf(part) ==
    IF FirstByte(part) = <<pathToken>> THEN slash
    ELSE IF FirstByte(part) = <<typeToken>> THEN param
    ELSE other

keyOf(part) == IF FirstByte(part) = <<typeToken>> THEN <<typeToken>> ELSE part

\* the parts insert can be given and walks through: splitURL lets no empty
\* part by, and the converter of a path param is known
ValidParts ==
    {s \in PatternSegments \cup {<<pathToken>>} :
        /\ s # <<>>
        /\ FirstByte(s) = <<typeToken>> => lookup(Rest(s)) # Nil}

\* the pieces of a pattern between its slashes
Pieces(pattern) == Split(Rest(pattern), pathToken)

\* the strings put in the place of a path param
Values == RequestSegments \cup {<<"-", "7">>, <<"a", pathToken, "a">>}

\* the values that are one segment of a path: not empty, and without a slash
SegmentValues ==
    {v \in Values : v # <<>> /\ \A i \in 1..Len(v) : v[i] # pathToken}

\* the paths a pattern becomes when each of its path params is replaced by
\* a value of V that the converter of the param accepts
Concrete(pattern, V) ==
    LET raw == Pieces(pattern)
        fit(i, v) ==
            IF FirstByte(raw[i]) = <<typeToken>>
            THEN v \in V /\ ~convert(lookup(Rest(raw[i])), v).err
            ELSE v = raw[i]
    IN  {Join(ss) : ss \in {f \in [1..Len(raw) -> V \cup {raw[i] : i \in 1..Len(raw)}] :
                               \A i \in 1..Len(raw) : fit(i, f[i])}}

----------------------------------------------------------------------------
(* C1 *)

\* C1: whenever insert fails on the parts of a pattern (invalid path param
\* or multiple types for path param), mix.tree still holds the root it held,
\* and the tree below it is the tree before the call, node for node and
\* table for table: nothing built for the parts before the failing one
\* stays.
C1_FailedInsertAtomic ==
    Settled =>
        \A pattern \in Patterns :
            LET sp  == splitURL(pattern)
                ins == insert(nodes, tables, tree.root, sp.parts, 1)
            IN  (sp.err = Nil /\ ins.err # Nil) =>
                    /\ ins.err \in {ErrPathParam, ErrMultiplePathParam}
                    /\ ins.root = tree.root
                    /\ Settle(ins.nodes, ins.tables, ins.root) = Tree

\* a Handle call on a tree with a route failed in insert on an unknown
\* converter after it had built a node for an earlier part
C1_Witness ==
    /\ last.op = "Handle"
    /\ last.err = ErrPathParam
    /\ last.built >= 1
    /\ Routes >= 1

----------------------------------------------------------------------------
(* C3 *)

\* C3: in every state, after successful and failed Handle calls alike, no
\* node of the tree has a child of kind param and a child of kind other;
\* each node has at most one child of kind param and at most one of kind
\* slash.
C3_StructuralConflict ==
    \A x \in DOMAIN nodes :
        /\ ~(ChildrenOfKind(nodes, x, param) # {}
             /\ ChildrenOfKind(nodes, x, other) # {})
        /\ Cardinality(ChildrenOfKind(nodes, x, param)) <= 1
        /\ Cardinality(ChildrenOfKind(nodes, x, slash)) <= 1

\* a node has a param child and a slash child, and the Handle call that
\* tried to put a literal beside them failed
C3_Witness ==
    /\ last.op = "Handle"
    /\ last.err = ErrMultiplePathParam
    /\ \E x \in DOMAIN nodes :
           /\ ChildrenOfKind(nodes, x, param) # {}
           /\ ChildrenOfKind(nodes, x, slash) # {}

----------------------------------------------------------------------------
(* C2 *)

\* C2, as the spec words it: for every <<M, P, h>> of a Handle call that
\* returned, Handler on method M and any path made from P by putting in
\* place of each path param a string its converter accepts returns h and no
\* error.  The strings include the empty one and one with a slash in it.
C2_RoundTripAnyString ==
    Settled =>
        \A route \in registered :
            \A path \in Concrete(route[2], Values) :
                LET out == HandlerCall(nodes, tables, tree.root, route[1], path,
                                       Background)
                IN  out.h = route[3] /\ out.err = Nil

\* C2, amended: the same, for the strings that are one segment of a path
\* (not empty, no slash in them) and that the converter accepts.
C2_RoundTrip ==
    Settled =>
        \A route \in registered :
            \A path \in Concrete(route[2], SegmentValues) :
                LET out == HandlerCall(nodes, tables, tree.root, route[1], path,
                                       Background)
                IN  out.h = route[3] /\ out.err = Nil

\* with two routes installed, Handler returned the handler of a route with a
\* path param, the converted value attached to the request
C2_Witness ==
    /\ last.op = "Handler"
    /\ last.err = Nil
    /\ last.ctx.attached
    /\ Routes = MaxRoutes
    /\ \E route \in registered :
           /\ route[3] = last.h
           /\ \E i \in 1..Len(Pieces(route[2])) :
                  FirstByte(Pieces(route[2])[i]) = <<typeToken>>

----------------------------------------------------------------------------
(* C7 *)

\* C7: a Handle call with the method and the pattern of an earlier call
\* that returned, with the same handler or another, fails with the duplicate
\* handler error; the tree after it is the tree before it, and the slot
\* still holds the handler of the first call.
C7_DuplicateRegistration ==
    Settled =>
        \A route \in registered :
          \A handler \in {route[3], Routes + 1} :
            LET out   == HandleCall(nodes, tables, tree.root, route[1], route[2],
                                    handler, 1)
                live  == Settle(out.nodes, out.tables, out.root)
                table == insert(nodes, tables, tree.root,
                                splitURL(route[2]).parts, 1).methods
            IN  /\ out.err = ErrDuplicate
                /\ live = Tree
                /\ slot(live.tables[table], route[1]) = route[3]

\* a Handle call on a tree with a route failed as a duplicate
C7_Witness ==
    /\ last.op = "Handle"
    /\ last.err = ErrDuplicate
    /\ Routes >= 1

----------------------------------------------------------------------------
(* C8 *)

\* C8: at a node x that has no child under the key of a part, the step of
\* insert for that part fails with the multiple types error iff the part is
\* a path param and x has a literal child, or the part is a literal and x
\* has a param child; in every other case (a literal beside literals, a
\* trailing slash beside literals or beside a param, a param or a literal
\* beside a trailing slash) it succeeds and the new child is there.
C8_ConflictOutcome ==
    Settled =>
        \A x \in DOMAIN nodes, part \in ValidParts :
            LET out      == insertPart(nodes, x, part, 1)
                conflict ==
                    \/ /\ kindOf(part) = param
                       /\ ChildrenOfKind(nodes, x, other) # {}
                    \/ /\ kindOf(part) = other
                       /\ ChildrenOfKind(nodes, x, param) # {}
            IN  (nodes[x].tid # slash /\ keyOf(part) \notin DOMAIN nodes[x].Children) =>
                    /\ out.err = ErrMultiplePathParam <=> conflict
                    /\ ~conflict =>
                           /\ out.err = Nil
                           /\ keyOf(part) \in DOMAIN out.nodes[x].Children
                           /\ out.nodes[x].Children[keyOf(part)] = out.curr
                           /\ out.nodes[out.curr].tid = kindOf(part)
                           /\ \A k \in DOMAIN nodes[x].Children :
                                  out.nodes[x].Children[k] = nodes[x].Children[k]

\* a node has a literal child and a trailing slash beside it, no node of the
\* tree is a path param, and the Handle call that came next failed with the
\* multiple types error: it tried to add a param child beside a literal
C8_Witness ==
    /\ last.op = "Handle"
    /\ last.err = ErrMultiplePathParam
    /\ \A x \in DOMAIN nodes : nodes[x].tid # param
    /\ \E x \in DOMAIN nodes :
           /\ ChildrenOfKind(nodes, x, other) # {}
           /\ ChildrenOfKind(nodes, x, slash) # {}

----------------------------------------------------------------------------
(* C4 *)

\* a request part may stand where a part of a pattern stands: a literal
\* (or the trailing slash) by being it, a path param by being a string its
\* converter accepts
Fits(ppart, rpart) ==
    IF FirstByte(ppart) = <<typeToken>>
    THEN ~convert(lookup(Rest(ppart)), rpart).err
    ELSE rpart = ppart

\* C4: for every installed pattern with an :int path param at position i,
\* and every request path that follows the pattern elsewhere and whose part
\* at position i is no base-10 integer (the parts ":" and "/" among them),
\* Handler returns not found, no handler, and the request's context as it
\* was, whatever the method.
C4_ConversionFailureNotFound ==
    Settled =>
        \A route \in registered, path \in Paths, method \in Methods :
            LET pp == splitURL(route[2]).parts
                rp == splitURL(path).parts
            IN  \A i \in 1..Len(pp) :
                    ( /\ pp[i] = <<typeToken, "i", "n", "t">>
                      /\ Len(rp) = Len(pp)
                      /\ Atoi(rp[i]).err
                      /\ \A j \in 1..Len(pp) : j # i => Fits(pp[j], rp[j]) )
                    => HandlerCall(nodes, tables, tree.root, method, path,
                                   Background)
                       = [h |-> NilHandler, err |-> ErrNotFound,
                          ctx |-> Background]

----------------------------------------------------------------------------
(* C5 *)

\* C5: on every Handler call that returns a handler, if the walk moved to k
\* nodes of kind param, the request carries exactly k values, under the
\* indices 0..k-1 in the order of the walk, and the value under j is what
\* the converter of the j-th of these nodes makes of the part consumed
\* there.
C5_PositionalParams ==
    Settled =>
        \A method \in Methods, path \in Paths :
            LET parts == splitURL(path).parts
                w     == handlerLoop(nodes, tree.root, parts, 1, 0, <<>>, <<>>)
                out   == HandlerCall(nodes, tables, tree.root, method, path,
                                     Background)
                at    == {p \in 1..Len(w.visited) :
                             nodes[w.visited[p]].tid = param}
                k     == Cardinality(at)
                nth(j) == CHOOSE p \in at : Cardinality({q \in at : q < p}) = j
                got   == IF out.ctx.attached THEN out.ctx.params ELSE <<>>
            IN  out.err = Nil =>
                    /\ DOMAIN got = 0..(k - 1)
                    /\ \A j \in 0..(k - 1) :
                           got[j] = convert(nodes[w.visited[nth(j)]].conv,
                                            parts[nth(j)]).val

----------------------------------------------------------------------------
(* C6 *)

\* C6: for every request path on which splitURL returns an error (no slash
\* to start with, or an empty part that is not the last), Handler returns
\* not found and no handler, whatever the tree and the method.
C6_MalformedNotFound ==
    Settled =>
        \A method \in Methods, path \in Paths :
            splitURL(path).err # Nil =>
                LET out == HandlerCall(nodes, tables, tree.root, method, path,
                                       Background)
                IN  out.err = ErrNotFound /\ out.h = NilHandler

----------------------------------------------------------------------------
(* C9 *)

\* what a Children map shows of the tree: its keys, and the kind and the
\* converter of the child under each
Shape(ns, kids) ==
    [k \in DOMAIN kids |-> [tid |-> ns[kids[k]].tid, conv |-> ns[kids[k]].conv]]

\* C9: whatever a Handler call has read while Handle calls ran beside it is
\* what one complete tree holds, a tree that mix.tree has held: at every
\* node of its walk the children it read (keys, kinds, converters) are the
\* children of the node at that place of the tree, and the handler table it
\* read is nil only if that node's is; no node of the walk was made by an
\* insert that failed; and at the last node of an insert that was published
\* it never read a nil handler table.
C9_NoPartialTree ==
    \E r \in hist.published :
        \A j \in 1..Len(disp.obs) :
            LET o == disp.obs[j]
                x == <<r[1], o.node[2]>>
            IN  /\ o.node[1] \notin hist.failed
                /\ x \in DOMAIN nodes
                /\ o.field = "Children" =>
                       Shape(nodes, o.val) = Shape(nodes, nodes[x].Children)
                /\ o.field = "Methods" =>
                       /\ (o.val = NilAddr) = (nodes[x].Methods = NilAddr)
                       /\ o.node \in hist.terminals => o.val # NilAddr

----------------------------------------------------------------------------
(* C10 *)

\* the nodes below the roots mix.tree has held, and their handler tables
PublishedNodes == UNION {Reach(nodes, r) : r \in hist.published}

PublishedTables == {nodes[a].Methods : a \in PublishedNodes} \ {NilAddr}

\* C10: no step of a Handle call writes to a node that is below a root
\* mix.tree has held (its kind, converter, children, handler table link),
\* nor to the handler table of such a node.
C10_PublishedImmutable ==
    [][ reg' # reg =>
            /\ \A a \in PublishedNodes : nodes'[a] = nodes[a]
            /\ \A t \in PublishedTables : tables'[t] = tables[t] ]_vars

----------------------------------------------------------------------------
(* C11 *)

\* the walk of Handler over the parts of a path, from the root of the tree
Walk(path) ==
    handlerLoop(nodes, tree.root, splitURL(path).parts, 1, 0, <<>>, <<>>)

\* C11: whenever the walk of Handler consumes every part of the request path
\* and ends at a node whose handler table is nil or holds nothing for the
\* request's method, Handler returns the not found error and no handler: so
\* it is at a node that has handlers for other methods, and at a node that
\* is on the way to longer installed patterns.
C11_NoMethodNotFound ==
    Settled =>
        \A method \in Methods, path \in Paths :
            LET w   == Walk(path)
                ms  == nodes[w.node].Methods
                out == HandlerCall(nodes, tables, tree.root, method, path,
                                   Background)
            IN  ( /\ w.found
                  /\ \/ ms = NilAddr
                     \/ method \notin DOMAIN tables[ms]
                     \/ tables[ms][method] = NilHandler )
                => out.err = ErrNotFound /\ out.h = NilHandler

\* Handler returned not found for a method that is not installed at the
\* node its walk ended at, a node that has a handler for another method and
\* a child on the way to a longer installed pattern
C11_Witness ==
    /\ last.op = "Handler"
    /\ last.err = ErrNotFound
    /\ last.h = NilHandler
    /\ LET w  == Walk(last.args.url)
           ms == nodes[w.node].Methods
       IN  /\ w.found
           /\ ms # NilAddr
           /\ DOMAIN tables[ms] # {}
           /\ last.args.method \notin DOMAIN tables[ms]
           /\ DOMAIN nodes[w.node].Children # {}
           /\ \E route \in registered :
                  Len(splitURL(route[2]).parts) > Len(w.visited)

----------------------------------------------------------------------------
(* C12 *)

\* whether a pattern ends in a slash that follows something
EndsInSlash(pattern) == Len(pattern) >= 2 /\ pattern[Len(pattern)] = pathToken

\* the pattern with the trailing slash taken off, or put on
Twin(pattern) ==
    IF EndsInSlash(pattern) THEN SubSeq(pattern, 1, Len(pattern) - 1)
    ELSE pattern \o <<pathToken>>

\* C12: a pattern P and the pattern P followed by a slash end at two
\* different nodes, each with a handler table of its own; and the handler
\* installed for one of the two is never what Handler returns for a request
\* path of the other (the other pattern as it is written, or with a segment
\* its converter accepts in the place of each path param), whatever the
\* method and whatever else is installed.
C12_TrailingSlash ==
    Settled =>
        /\ \A pattern \in Patterns :
               LET P  == splitURL(pattern)
                   Q  == splitURL(pattern \o <<pathToken>>)
                   i1 == insert(nodes, tables, tree.root, P.parts, 1)
                   i2 == insert(i1.nodes, i1.tables, i1.root, Q.parts, 2)
               IN  (P.err = Nil /\ Q.err = Nil /\ i1.err = Nil /\ i2.err = Nil)
                   => /\ i1.methods # i2.methods
                      /\ i1.methods[2] # i2.methods[2]
                      /\ i2.methods[2] = Append(i1.methods[2], <<pathToken>>)
        /\ \A route \in registered, method \in Methods :
               Len(route[2]) >= 2 =>
                   \A path \in Concrete(Twin(route[2]), SegmentValues)
                               \cup {Twin(route[2])} :
                       HandlerCall(nodes, tables, tree.root, method, path,
                                   Background).h # route[3]

\* a handler is installed for a pattern that ends in a slash and none for
\* the pattern without the slash, and Handler, asked for the path without
\* the slash under the same method, returned not found
C12_Witness ==
    /\ last.op = "Handler"
    /\ last.err = ErrNotFound
    /\ Walk(last.args.url).found
    /\ \E route \in registered :
           /\ route[1] = last.args.method
           /\ route[2] = last.args.url \o <<pathToken>>
    /\ \A route \in registered : route[2] # last.args.url

----------------------------------------------------------------------------
(* C13 *)

\* the names of the registry
ConverterNames == DOMAIN converters

\* the first i parts of a pattern, the i-th a path param of the given name
Retyped(parts, i, name) ==
    [SubSeq(parts, 1, i) EXCEPT ![i] = <<typeToken>> \o name]

\* C13, as the spec words it: where an installed pattern has a path param
\* of name n1, insert of a pattern that has a path param of any other name
\* n2 of the registry at that place fails with the multiple types error,
\* and the tree is the tree before the call.
C13_RetypeAnyName ==
    Settled =>
        \A route \in registered, n2 \in ConverterNames :
            LET parts == splitURL(route[2]).parts
            IN  \A i \in 1..Len(parts) :
                    ( /\ FirstByte(parts[i]) = <<typeToken>>
                      /\ Rest(parts[i]) # n2 )
                    => LET ins == insert(nodes, tables, tree.root,
                                         Retyped(parts, i, n2), 1)
                       IN  /\ ins.err = ErrMultiplePathParam
                           /\ Settle(ins.nodes, ins.tables, ins.root) = Tree

\* C13, amended: the same for the names n1 and n2 that the registry maps to
\* two different converters (int on one side, str or the empty name on the
\* other); str and the empty name are names of one converter, and insert of
\* the one where the other was installed succeeds.
C13_Retype ==
    Settled =>
        \A route \in registered, n2 \in ConverterNames :
            LET parts == splitURL(route[2]).parts
            IN  \A i \in 1..Len(parts) :
                    ( /\ FirstByte(parts[i]) = <<typeToken>>
                      /\ Rest(parts[i]) # n2 )
                    => LET ins == insert(nodes, tables, tree.root,
                                         Retyped(parts, i, n2), 1)
                       IN  IF lookup(Rest(parts[i])) # lookup(n2)
                           THEN /\ ins.err = ErrMultiplePathParam
                                /\ Settle(ins.nodes, ins.tables, ins.root)
                                   = Tree
                           ELSE ins.err = Nil

\* a Handle call failed with the multiple types error on a pattern that has
\* a path param where an installed pattern, the same up to there, has a
\* path param of another converter
C13_Witness ==
    /\ last.op = "Handle"
    /\ last.err = ErrMultiplePathParam
    /\ \E route \in registered :
           LET mine   == splitURL(last.args.url).parts
               theirs == splitURL(route[2]).parts
           IN  \E i \in 1..Len(mine) :
                   /\ i <= Len(theirs)
                   /\ SubSeq(mine, 1, i - 1) = SubSeq(theirs, 1, i - 1)
                   /\ FirstByte(mine[i]) = <<typeToken>>
                   /\ FirstByte(theirs[i]) = <<typeToken>>
                   /\ lookup(Rest(mine[i])) # Nil
                   /\ lookup(Rest(mine[i])) # lookup(Rest(theirs[i]))

----------------------------------------------------------------------------
(* C14 *)

\* the sequences of parts insert is tried on: up to MaxSegs parts, none
\* empty, a slash in any place, and no part at all
PartSeqs ==
    SeqsUpTo((PatternSegments \cup {<<pathToken>>}) \ {<<>>}, MaxSegs)
        \cup {<<>>}

\* the handler tables after methods[method] = handler on the table at
\* address t, for a method the table has nothing for; no method: nothing
Installed(ts, t, method, handler) ==
    IF method \in AllowedMethods /\ slot(ts[t], method) = NilHandler
    THEN [ts EXCEPT ![t] = (method :> handler) @@ @]
    ELSE ts

\* C14: on every reachable tree and for every sequence of parts on which
\* insert succeeds, insert of the same sequence once more, with or without
\* a handler stored in the returned table in between, succeeds, returns the
\* same handler table reference, leaves every table as it was, and leaves
\* a tree that is node for node the tree the first insert left.
C14_InsertIdempotent ==
    Settled =>
        \A parts \in PartSeqs, between \in {"", "GET", "PUT"} :
            LET i1  == insert(nodes, tables, tree.root, parts, 1)
                mid == Installed(i1.tables, i1.methods, between, Routes + 1)
                i2  == insert(i1.nodes, mid, i1.root, parts, 2)
            IN  i1.err = Nil =>
                    /\ i2.err = Nil
                    /\ i2.methods = i1.methods
                    /\ i2.tables = mid
                    /\ Settle(i2.nodes, i2.tables, i2.root)
                       = Settle(i1.nodes, mid, i1.root)

\* a Handle call returned on a pattern that an earlier call had installed
\* under another method: its insert built no node and came back with the
\* table that holds the earlier handler
C14_Witness ==
    /\ last.op = "Handle"
    /\ last.err = Nil
    /\ last.built = 0
    /\ \E route \in registered :
           /\ route[2] = last.args.url
           /\ route[1] # last.args.method
           /\ LET t == insert(nodes, tables, tree.root,
                              splitURL(route[2]).parts, 1).methods
              IN  /\ slot(tables[t], route[1]) = route[3]
                  /\ slot(tables[t], last.args.method) = last.args.handler

----------------------------------------------------------------------------
(* C15 *)

\* names the registry does not have: another word, a registry name in
\* another case, a registry name cut short, a registry name with more
UnknownNames ==
    { <<"m">>, <<"I", "n", "t">>, <<"s", "t">>, <<"s", "t", "r", "x">> }

\* the place of the first path param of an unknown name among the parts, 0
\* if there is none
FirstUnknown(parts) ==
    LET at == {i \in 1..Len(parts) :
                  /\ FirstByte(parts[i]) = <<typeToken>>
                  /\ lookup(Rest(parts[i])) = Nil}
    IN  IF at = {} THEN 0 ELSE CHOOSE i \in at : \A j \in at : i <= j

\* C15: at every node of the tree, whatever its children (none, literals, a
\* path param, a trailing slash), the step of insert for a path param of a
\* name the registry does not have fails with the invalid path param error
\* and touches nothing; and insert of a pattern fails with that error, not
\* with the multiple types error, whenever the parts before its first path
\* param of an unknown name can be inserted.
C15_UnknownConverter ==
    Settled =>
        /\ \A x \in DOMAIN nodes, name \in UnknownNames :
               insertPart(nodes, x, <<typeToken>> \o name, 1)
               = [err |-> ErrPathParam, nodes |-> nodes, curr |-> x]
        /\ \A pattern \in Patterns :
               LET sp == splitURL(pattern)
                   i  == FirstUnknown(sp.parts)
               IN  ( /\ sp.err = Nil
                     /\ i > 0
                     /\ insert(nodes, tables, tree.root,
                               SubSeq(sp.parts, 1, i - 1), 1).err = Nil )
                   => insert(nodes, tables, tree.root, sp.parts, 1).err
                      = ErrPathParam

\* the root has a path param child and a trailing slash child, and the
\* Handle call that asked for a path param of an unknown name below the
\* root failed with the invalid path param error
C15_Witness ==
    /\ last.op = "Handle"
    /\ last.err = ErrPathParam
    /\ FirstUnknown(splitURL(last.args.url).parts) = 1
    /\ ChildrenOfKind(nodes, tree.root, param) # {}
    /\ ChildrenOfKind(nodes, tree.root, slash) # {}

----------------------------------------------------------------------------
(* C16 *)

\* the places of the slashes of a string
SlashesOf(url) == {i \in 1..Len(url) : url[i] = pathToken}

\* the piece of a string that follows its slash at place i: what stands
\* between that slash and the next one, or the end
PieceAfter(url, i) ==
    LET later == {j \in SlashesOf(url) : j > i}
        next  == IF later = {} THEN Len(url) + 1
                 ELSE CHOOSE j \in later : \A k \in later : j <= k
    IN  SubSeq(url, i + 1, next - 1)

\* the segments of a string that starts with a slash: the piece after each
\* slash, in order, the slash itself for an empty piece after the last one
SegmentsOf(url) ==
    LET at     == SlashesOf(url)
        nth(k) == CHOOSE i \in at : Cardinality({j \in at : j < i}) = k - 1
    IN  [k \in 1..Cardinality(at) |->
            IF k = Cardinality(at) /\ PieceAfter(url, nth(k)) = <<>>
            THEN <<pathToken>>
            ELSE PieceAfter(url, nth(k))]

\* C16: splitURL returns no error iff the string starts with a slash and
\* none of the pieces between its slashes is empty, the piece after the
\* last slash left aside; then the parts are the pieces, with the slash as
\* the last part when the last piece is empty; otherwise the error is the
\* invalid pattern error.
C16_SplitURL ==
    last.op = "splitURL" =>
        LET url   == last.args.url
            valid == /\ Len(url) >= 1
                     /\ url[1] = pathToken
                     /\ \A i \in SlashesOf(url) : i + 1 \notin SlashesOf(url)
        IN  /\ last.err = Nil <=> valid
            /\ valid => last.parts = SegmentsOf(url)
            /\ ~valid => last.err = ErrPattern

\* splitURL was given /a/b/ and returned a, b and the slash
C16_Witness ==
    /\ last.op = "splitURL"
    /\ last.args.url = <<"/", "a", "/", "b", "/">>
    /\ last.parts = << <<"a">>, <<"b">>, <<"/">> >>
    /\ last.err = Nil

----------------------------------------------------------------------------
(* C17 *)

\* the keys insert walks through for the parts of a pattern
KeysOf(parts) == [i \in 1..Len(parts) |-> keyOf(parts[i])]

\* C17: a Handle call fails with the error of the first of its faults, in
\* the order: method not allowed, nil handler, invalid pattern, error of
\* insert (invalid path param or multiple types), handler already installed
\* for the method at the node of the pattern; it returns if it has none of
\* them; and a call that fails leaves every handler table as it was.
C17_ErrorOrder ==
    Settled =>
        \A method \in Methods, pattern \in Patterns, handler \in Handlers :
            LET out == HandleCall(nodes, tables, tree.root, method, pattern,
                                  handler, 1)
                sp  == splitURL(pattern)
                ie  == insert(nodes, tables, tree.root, sp.parts, 1).err
                dup == \E route \in registered :
                           /\ route[1] = method
                           /\ KeysOf(splitURL(route[2]).parts)
                              = KeysOf(sp.parts)
                expected ==
                    IF method \notin {"GET", "HEAD", "POST", "PUT", "PATCH",
                                      "DELETE", "OPTIONS"}
                    THEN ErrMethod
                    ELSE IF handler = NilHandler THEN ErrHandler
                    ELSE IF sp.err # Nil THEN ErrPattern
                    ELSE IF ie # Nil THEN ie
                    ELSE IF dup THEN ErrDuplicate
                    ELSE Nil
            IN  /\ out.err = expected
                /\ out.err \in {Nil, ErrMethod, ErrHandler, ErrPattern,
                                ErrPathParam, ErrMultiplePathParam,
                                ErrDuplicate}
                /\ out.err # Nil => out.tables = tables

\* a Handle call with a method that is not allowed, a nil handler and a
\* pattern without its leading slash failed with the invalid method error,
\* and one with a nil handler and a pattern that insert refuses would fail
\* with the nil handler error
C17_Witness ==
    /\ last.op = "Handle"
    /\ last.args.method \notin AllowedMethods
    /\ last.args.handler = NilHandler
    /\ splitURL(last.args.url).err # Nil
    /\ last.err = ErrMethod
    /\ Routes >= 1
    /\ \E pattern \in Patterns :
           /\ splitURL(pattern).err = Nil
           /\ insert(nodes, tables, tree.root, splitURL(pattern).parts, 1).err
              = ErrMultiplePathParam
           /\ HandleCall(nodes, tables, tree.root, "GET", pattern, NilHandler,
                         1).err = ErrHandler

----------------------------------------------------------------------------
(* C18 *)

\* C18: every Handler call returns a handler and no error, or no handler
\* and the not found error; the handler it returns is one a Handle call
\* installed for the request's method; ServeHTTP then answers 404 and calls
\* nothing, or calls that handler, and never calls through nil.  On the way
\* Handler never calls through a nil converter: the child under the key of
\* the type token always has one.
C18_DispatchTotal ==
    /\ \A x \in DOMAIN nodes :
           /\ \A k \in DOMAIN nodes[x].Children :
                  nodes[x].Children[k] \in DOMAIN nodes
           /\ <<typeToken>> \in DOMAIN nodes[x].Children =>
                  nodes[nodes[x].Children[<<typeToken>>]].conv \in {"sc", "ic"}
    /\ last.op = "Handler" =>
           LET served == ServeHTTP(last.h, last.err)
           IN  /\ \/ last.h # NilHandler /\ last.err = Nil
                  \/ last.h = NilHandler /\ last.err = ErrNotFound
               /\ last.h # NilHandler =>
                      \E route \in registered :
                          route[1] = last.args.method /\ route[3] = last.h
               /\ ~served.crash
               /\ \/ served.reply = "404" /\ served.called = NilHandler
                  \/ /\ served.reply = "handler"
                     /\ served.called \in {route[3] : route \in registered}

\* with two handlers installed, Handler was asked for a path that a
\* converter refuses in the middle of the walk, under a method that is
\* installed, and returned not found and no handler
C18_Witness ==
    /\ last.op = "Handler"
    /\ last.err = ErrNotFound
    /\ last.h = NilHandler
    /\ Routes = MaxRoutes
    /\ \E route \in registered : route[1] = last.args.method
    /\ LET w     == Walk(last.args.url)
           parts == splitURL(last.args.url).parts
       IN  /\ ~w.found
           /\ Len(w.visited) >= 1
           /\ <<typeToken>> \in DOMAIN nodes[w.node].Children
           /\ convert(nodes[nodes[w.node].Children[<<typeToken>>]].conv,
                      parts[Len(w.visited) + 1]).err

----------------------------------------------------------------------------
(* C19 *)

\* the context of a request that an outer mixer has already dispatched: it
\* holds a value of the caller and path params of the outer pattern
Nested ==
    [old |-> TRUE, attached |-> TRUE, params |-> (0 :> [str |-> <<"a">>])]

\* C19: a Handler call that returns not found leaves the request's context
\* as it was, also when its walk had converted params before it failed; so
\* does a call that returns a handler after a walk that converted none; a
\* call that returns a handler after a walk that converted params leaves
\* what the caller had put in the context and sets nothing but the path
\* params entry, to the params of this walk.
C19_ContextFrame ==
    Settled =>
        \A method \in Methods, path \in Paths,
           ctx \in Contexts \cup {Nested} :
            LET w   == Walk(path)
                out == HandlerCall(nodes, tables, tree.root, method, path, ctx)
            IN  /\ out.err = ErrNotFound => out.ctx = ctx
                /\ (out.err = Nil /\ DOMAIN w.params = {}) => out.ctx = ctx
                /\ (out.err = Nil /\ DOMAIN w.params # {}) =>
                       /\ out.ctx.old = ctx.old
                       /\ out.ctx.attached
                       /\ out.ctx.params = w.params
                       /\ DOMAIN out.ctx = DOMAIN ctx

\* Handler was given a request whose context held a value of the caller,
\* converted a param, failed further down, and returned not found with the
\* context as it was
C19_Witness ==
    /\ last.op = "Handler"
    /\ last.err = ErrNotFound
    /\ last.ctx0.old
    /\ last.ctx = last.ctx0
    /\ ~Walk(last.args.url).found
    /\ DOMAIN Walk(last.args.url).params # {}

----------------------------------------------------------------------------
(* C20 *)

\* method strings Handle may be given: the seven it lets through, two
\* other methods of HTTP, one of the seven in lower case, the empty string
MethodStrings ==
    {"GET", "HEAD", "POST", "PUT", "PATCH", "DELETE", "OPTIONS",
     "CONNECT", "TRACE", "get", ""}

----------------------------------------------------------------------------
(* C21 *)

\* the empty name and str
StrNames == {<<>>, <<"s", "t", "r">>}

\* the places below which a path param is tried: the root, and a literal
Prefixes == {<<>>, << <<"a">> >>}

\* C21: at a node that has a path param child, the step of insert for a
\* path param of a name of the registry goes down to that child, building
\* nothing, iff the converter the registry gives the name is the object the
\* child holds, and fails with the multiple types error otherwise.  So on
\* every tree, once a path param of name n1 is inserted at a place, insert
\* of name n2 at that place succeeds and returns the same handler table if
\* n1 and n2 are both among the empty name and str (or are one name), and
\* fails with the multiple types error if one of them is int and the other
\* is not.
C21_ConverterIdentity ==
    Settled =>
        /\ \A x \in DOMAIN nodes, name \in ConverterNames :
               <<typeToken>> \in DOMAIN nodes[x].Children =>
                   LET child == nodes[x].Children[<<typeToken>>]
                       out   == insertPart(nodes, x, <<typeToken>> \o name, 1)
                   IN  IF nodes[child].conv = lookup(name)
                       THEN out = [err |-> Nil, nodes |-> nodes,
                                   curr |-> child]
                       ELSE out = [err |-> ErrMultiplePathParam,
                                   nodes |-> nodes, curr |-> x]
        /\ \A prefix \in Prefixes, n1 \in ConverterNames,
              n2 \in ConverterNames :
               LET i1 == insert(nodes, tables, tree.root,
                                Append(prefix, <<typeToken>> \o n1), 1)
                   i2 == insert(i1.nodes, i1.tables, i1.root,
                                Append(prefix, <<typeToken>> \o n2), 2)
                   same == n1 = n2 \/ (n1 \in StrNames /\ n2 \in StrNames)
               IN  i1.err = Nil =>
                       IF same
                       THEN /\ i2.err = Nil
                            /\ i2.methods = i1.methods
                            /\ Settle(i2.nodes, i2.tables, i2.root)
                               = Settle(i1.nodes, i1.tables, i1.root)
                       ELSE i2.err = ErrMultiplePathParam

\* a Handle call returned on a pattern that names the empty converter
\* where a pattern installed before, the same otherwise, names str (or the
\* other way round): it built no node and its handler is in the table of
\* the earlier one
C21_Witness ==
    /\ last.op = "Handle"
    /\ last.err = Nil
    /\ last.built = 0
    /\ \E route \in registered :
           LET mine   == splitURL(last.args.url).parts
               theirs == splitURL(route[2]).parts
           IN  /\ mine # theirs
               /\ KeysOf(mine) = KeysOf(theirs)
               /\ \E i \in 1..Len(mine) :
                      /\ FirstByte(mine[i]) = <<typeToken>>
                      /\ Rest(mine[i]) # Rest(theirs[i])
                      /\ Rest(mine[i]) \in StrNames
                      /\ Rest(theirs[i]) \in StrNames
               /\ LET t == nodes[<<0, KeysOf(mine)>>].Methods
                  IN  /\ slot(tables[t], route[1]) = route[3]
                      /\ slot(tables[t], last.args.method)
                         = last.args.handler

----------------------------------------------------------------------------
(* C22 *)

\* the places of an installed pattern where it has a path param, with the
\* name it has there and another name of the registry
Redeclarations ==
    {d \in [route : registered, i : 1..MaxSegs, n2 : ConverterNames] :
        LET parts == splitURL(d.route[2]).parts
        IN  /\ d.i <= Len(parts)
            /\ FirstByte(parts[d.i]) = <<typeToken>>
            /\ Rest(parts[d.i]) # d.n2}

\* insert of the pattern of d up to the place of d, the path param there
\* under the other name
Redeclare(d) ==
    insert(nodes, tables, tree.root,
           Retyped(splitURL(d.route[2]).parts, d.i, d.n2), 1)

\* C22, as the spec words it: a path param installed under one name is
\* inserted again under another name with success only if the name it was
\* installed under is the empty one; where it was installed under str or
\* int, insert of the empty name fails with the multiple types error.
C22_OneDirectional ==
    Settled =>
        \A d \in Redeclarations :
            LET n1 == Rest(splitURL(d.route[2]).parts[d.i])
            IN  /\ Redeclare(d).err = Nil => n1 = <<>>
                /\ (n1 # <<>> /\ d.n2 = <<>>) =>
                       Redeclare(d).err = ErrMultiplePathParam

\* C22, amended: a path param installed under one name is inserted again
\* under another name with success iff the two names are the empty name
\* and str, whichever of the two came first; in every other case (int on
\* one side) insert fails with the multiple types error and the tree is as
\* it was.
C22_Redeclare ==
    Settled =>
        \A d \in Redeclarations :
            LET n1  == Rest(splitURL(d.route[2]).parts[d.i])
                ins == Redeclare(d)
            IN  IF {n1, d.n2} = {<<>>, <<"s", "t", "r">>}
                THEN ins.err = Nil
                ELSE /\ ins.err = ErrMultiplePathParam
                     /\ Settle(ins.nodes, ins.tables, ins.root) = Tree

\* a Handle call for a pattern with a path param of the empty name failed
\* with the multiple types error where an installed pattern, the same up to
\* there, has :int; and a pattern with :str is installed on which insert of
\* the empty name succeeds
C22_Witness ==
    /\ last.op = "Handle"
    /\ last.err = ErrMultiplePathParam
    /\ \E route \in registered :
           LET mine   == splitURL(last.args.url).parts
               theirs == splitURL(route[2]).parts
           IN  \E i \in 1..Len(mine) :
                   /\ i <= Len(theirs)
                   /\ SubSeq(mine, 1, i - 1) = SubSeq(theirs, 1, i - 1)
                   /\ mine[i] = <<typeToken>>
                   /\ theirs[i] = <<typeToken, "i", "n", "t">>
    /\ \E d \in Redeclarations :
           /\ Rest(splitURL(d.route[2]).parts[d.i]) = <<"s", "t", "r">>
           /\ d.n2 = <<>>
           /\ Redeclare(d).err = Nil

----------------------------------------------------------------------------
(* C23 *)

\* the well-formed strings that end in a slash
SlashEnded(S) ==
    {p \in S : /\ splitURL(p).err = Nil
               /\ p[Len(p)] = pathToken}

\* C23: on every reachable tree, when Handler returns a handler for a
\* well-formed request path that ends in a slash, the walk ended at a node
\* of kind slash, the handler is one installed under a pattern that ends in
\* a slash, and no path param got the slash as its value.
C23_SlashOnlySlashNode ==
    Settled =>
        \A method \in Methods, path \in SlashEnded(Paths) :
            LET w   == Walk(path)
                out == HandlerCall(nodes, tables, tree.root, method, path,
                                   Background)
            IN  out.err = Nil =>
                    /\ nodes[w.node].tid = slash
                    /\ \E route \in registered :
                           /\ route[3] = out.h
                           /\ route[2] \in SlashEnded(Patterns)
                    /\ \A j \in DOMAIN w.params :
                           w.params[j] # [str |-> <<pathToken>>]

----------------------------------------------------------------------------
(* C24 *)

\* C24: a call of Handle, returned or failed, takes away no answer of
\* Handler: for every method and request path for which Handler returns a
\* handler before the call, it returns the same handler, with the same
\* params attached, after it.  Step by step, this is the same for any
\* sequence of Handle calls.
C24_StableResolution ==
    [][ \A method \in Methods, path \in Paths :
            LET before == HandlerCall(nodes, tables, tree.root, method, path,
                                      Background)
                after  == HandlerCall(nodes', tables', tree'.root, method,
                                      path, Background)
            IN  before.err = Nil => after = before ]_vars

----------------------------------------------------------------------------
(* C25 *)

\* the Handle calls that ran beside the Handler call in progress: the insert
\* calls that had not returned when it began
Overlapping == (1..hist.calls) \ disp.seen

\* the root mix.tree held when insert call g began: the last one published
\* by an earlier call
RootBefore(g) ==
    CHOOSE r \in hist.published :
        /\ r[1] < g
        /\ \A q \in hist.published : q[1] < g => q[1] <= r[1]

\* the handler tables as they were when insert call g began: without the
\* handlers installed by call g and by the calls after it
TablesBefore(g) ==
    [t \in DOMAIN tables |->
        [m \in {k \in DOMAIN tables[t] : tables[t][k] < g} |-> tables[t][m]]]

\* what call g of Handle was given: read from the goroutine that is in the
\* call, or from the record of the calls that returned; a call that
\* panicked has left no record, and its handler is NilHandler here
ArgsOfCall(g) ==
    IF \E r \in Registrars : reg[r].pc # "idle" /\ reg[r].g = g
    THEN LET r == CHOOSE q \in Registrars : reg[q].pc # "idle" /\ reg[q].g = g
         IN  Args(reg[r].method, reg[r].pattern, reg[r].handler)
    ELSE IF \E x \in registered : x[3] = g
    THEN LET x == CHOOSE y \in registered : y[3] = g
         IN  Args(x[1], x[2], x[3])
    ELSE Args("", <<>>, NilHandler)

\* what Handler returns for the request on the state call g of Handle
\* started from: the handler, the error and the params
ResultBefore(g, method, url) ==
    LET o == HandlerCall(nodes, TablesBefore(g), RootBefore(g), method, url,
                         Background)
    IN  <<o.h, o.err, o.ctx.params>>

\* what Handler returns for the request on the state call g of Handle,
\* started from there, leaves when it has run to its end
ResultAfter(g, method, url) ==
    LET a  == ArgsOfCall(g)
        st == HandleCall(nodes, TablesBefore(g), RootBefore(g), a.method,
                         a.url, a.handler, MaxCalls + 1)
        o  == HandlerCall(st.nodes, st.tables, st.root, method, url,
                          Background)
    IN  <<o.h, o.err, o.ctx.params>>

\* C25: a Handler call that ran beside one Handle call, whatever the steps
\* of the two were interleaved as, returns what it returns on the state the
\* Handle call started from or what it returns on the state the Handle call
\* leaves: the same handler or the not found error, and the same params.
C25_Linearizable ==
    [][ (/\ disp.pc = "walk"
         /\ disp'.pc = "idle"
         /\ Cardinality(Overlapping) = 1) =>
            \A g \in Overlapping, url \in ConcPaths :
                splitURL(url).parts = disp.parts =>
                    <<disp'.h, disp'.err, disp'.params>>
                        \in {ResultBefore(g, disp.method, url),
                             ResultAfter(g, disp.method, url)} ]_vars

----------------------------------------------------------------------------
(* C26 *)

\* the places of the nodes on the path of a sequence of parts, the root's
\* among them
PathNodes(parts) ==
    {<<0, SubSeq(KeysOf(parts), 1, j)>> : j \in 0..Len(parts)}

\* C26: a Handle call that returns, given method M, pattern P and handler
\* h, leaves h in the slot M of the handler table of the node at the end of
\* P's path in the live tree, and nothing else different: every other slot
\* of that table and every slot of every other table holds what it held, no
\* table is gone and none is new but that node's, every node there was is
\* there with its kind, its converter, its table and its children, and the
\* nodes and the edges that are new are on P's path.
C26_HandleFrame ==
    [][ (last'.op = "Handle" /\ last'.err = Nil) =>
            LET a     == last'.args
                parts == splitURL(a.url).parts
                term  == <<0, KeysOf(parts)>>
                path  == PathNodes(parts)
            IN  /\ DOMAIN nodes' = DOMAIN nodes \cup path
                /\ nodes'[term].Methods # NilAddr
                /\ slot(tables'[nodes'[term].Methods], a.method) = a.handler
                /\ DOMAIN tables' = DOMAIN tables \cup {nodes'[term].Methods}
                /\ \A t \in DOMAIN tables', m \in MethodStrings :
                       <<t, m>> # <<nodes'[term].Methods, a.method>> =>
                           slot(tables'[t], m)
                               = IF t \in DOMAIN tables
                                 THEN slot(tables[t], m) ELSE NilHandler
                /\ \A t \in DOMAIN tables' :
                       DOMAIN tables'[t] \subseteq
                           (IF t \in DOMAIN tables THEN DOMAIN tables[t]
                            ELSE {}) \cup {a.method}
                /\ \A x \in DOMAIN nodes :
                       /\ nodes'[x].tid = nodes[x].tid
                       /\ nodes'[x].conv = nodes[x].conv
                       /\ x # term => nodes'[x].Methods = nodes[x].Methods
                       /\ nodes[x].Methods # NilAddr =>
                              nodes'[x].Methods = nodes[x].Methods
                       /\ \A k \in DOMAIN nodes[x].Children :
                              /\ k \in DOMAIN nodes'[x].Children
                              /\ nodes'[x].Children[k] = nodes[x].Children[k]
                       /\ \A k \in DOMAIN nodes'[x].Children :
                              k \notin DOMAIN nodes[x].Children =>
                                  nodes'[x].Children[k] \in path \ DOMAIN nodes
                /\ \A x \in DOMAIN nodes' \ DOMAIN nodes :
                       /\ x # term => nodes'[x].Methods = NilAddr
                       /\ \A k \in DOMAIN nodes'[x].Children :
                              nodes'[x].Children[k] \in path \ DOMAIN nodes ]_vars

\* a Handle call has returned having built the node it stored its handler
\* at, in a tree that holds the handler of an earlier call at another node
C26_Witness ==
    /\ last.op = "Handle"
    /\ last.err = Nil
    /\ last.built >= 1
    /\ \E t \in DOMAIN tables :
           /\ t # <<0, KeysOf(splitURL(last.args.url).parts)>>
           /\ \E m \in DOMAIN tables[t] : tables[t][m] # NilHandler

----------------------------------------------------------------------------
(* C27 *)

\* the places where an insert that succeeded has ended: insert succeeds in
\* the Handle calls that return and in the ones that panic with the
\* duplicate error, and these end where an earlier call that returned ended
Terminals == {KeysOf(splitURL(route[2]).parts) : route \in registered}

\* C27: in every tree reachable by Handle calls a node has a handler table
\* iff an insert that succeeded has ended at it; the root has none, and a
\* node that inserts have only passed through has none; every handler table
\* holds a handler; and an insert that succeeds on such a tree, for any
\* sequence of parts, leaves a tree in which the nodes with a handler table
\* are the ones that had one and the node the insert ended at.
C27_TablesAtTerminals ==
    /\ \A x \in DOMAIN nodes :
           (nodes[x].Methods # NilAddr) <=> (x[2] \in Terminals)
    /\ nodes[tree.root].Methods = NilAddr
    /\ \A t \in DOMAIN tables :
           \E m \in DOMAIN tables[t] : tables[t][m] # NilHandler
    /\ Settled =>
           \A parts \in PartSeqs :
               LET i1 == insert(nodes, tables, tree.root, parts, 1)
               IN  i1.err = Nil =>
                       \A x \in Reach(i1.nodes, i1.root) :
                           (i1.nodes[x].Methods # NilAddr)
                               <=> (x[2] \in Terminals \cup {KeysOf(parts)})

\* two Handle calls have returned and have left a node that has no handler
\* table above a node that has one
C27_Witness ==
    /\ last.op = "Handle"
    /\ last.err = Nil
    /\ Routes = 2
    /\ \E x \in DOMAIN nodes \ {tree.root} :
           /\ nodes[x].Methods = NilAddr
           /\ \E k \in DOMAIN nodes[x].Children :
                  nodes[nodes[x].Children[k]].Methods # NilAddr

----------------------------------------------------------------------------
(* C28 *)

\* the handler in the slot of a method at the node at place x of a tree,
\* NilHandler when the node has no handler table
HandlerAt(ns, ts, x, method) ==
    IF ns[x].Methods = NilAddr THEN NilHandler
    ELSE slot(ts[ns[x].Methods], method)

\* C28: whatever call is made, and however it ends, the live tree keeps
\* every node it has, every child edge of every node, and every handler:
\* a slot that holds a handler holds the same handler afterwards.
C28_NothingRemoved ==
    [][ \A x \in DOMAIN nodes :
            /\ x \in DOMAIN nodes'
            /\ \A k \in DOMAIN nodes[x].Children :
                   /\ k \in DOMAIN nodes'[x].Children
                   /\ nodes'[x].Children[k] = nodes[x].Children[k]
            /\ \A m \in MethodStrings :
                   HandlerAt(nodes, tables, x, m) # NilHandler =>
                       HandlerAt(nodes', tables', x, m)
                           = HandlerAt(nodes, tables, x, m) ]_vars

\* a Handle call has returned having added a child to a node that had one:
\* the node has both children, and the handler stored below the first is
\* in its slot
C28_Witness ==
    /\ last.op = "Handle"
    /\ last.err = Nil
    /\ last.built >= 1
    /\ \E x \in DOMAIN nodes :
           /\ Cardinality(DOMAIN nodes[x].Children) >= 2
           /\ \E route \in registered :
                  /\ route[3] # last.args.handler
                  /\ HandlerAt(nodes, tables,
                               <<0, KeysOf(splitURL(route[2]).parts)>>,
                               route[1]) = route[3]

----------------------------------------------------------------------------
(* C29 *)

\* the converters of the registry
RegistryConverters == {converters[name] : name \in DOMAIN converters}

\* C29: in every tree reachable by Handle calls the child under the key ":"
\* is a path param node with a converter of the registry, the child under
\* the key "/" is a trailing slash node with no converter and no child,
\* the child under any other key is a node of kind other with no
\* converter, and the root of the tree is the one node of kind root.
C29_EdgeKinds ==
    /\ \A x \in DOMAIN nodes, k \in UNION {DOMAIN nodes[y].Children :
                                            y \in DOMAIN nodes} :
           k \in DOMAIN nodes[x].Children =>
               LET c == nodes[nodes[x].Children[k]]
               IN  IF k = <<typeToken>>
                   THEN /\ c.tid = param
                        /\ c.conv \in RegistryConverters
                   ELSE IF k = <<pathToken>>
                   THEN /\ c.tid = slash
                        /\ c.conv = Nil
                        /\ DOMAIN c.Children = {}
                        /\ c.ChildrenNil
                   ELSE /\ c.tid = other
                        /\ c.conv = Nil
    /\ \A x \in DOMAIN nodes : (nodes[x].tid = root) <=> (x = tree.root)
    /\ nodes[tree.root].conv = Nil

\* two Handle calls have returned and have left a path param node with a
\* trailing slash node and a node of kind other below it
C29_Witness ==
    /\ Routes = 2
    /\ \E x \in DOMAIN nodes :
           /\ nodes[x].tid = param
           /\ <<pathToken>> \in DOMAIN nodes[x].Children
           /\ \E k \in DOMAIN nodes[x].Children :
                  nodes[nodes[x].Children[k]].tid = other

----------------------------------------------------------------------------
(* C30 *)

\* the copy of the node at x in a copy of generation g
CopyOf(x, g) == <<g, x[2]>>

\* C30: on every reachable tree, deepcopy returns a tree whose nodes are all
\* new objects, one at each place of the original and none elsewhere, each
\* with the kind, the converter reference, the handler table reference and
\* the child keys of the original at that place, its children the copies of
\* the original's children, and a nil Children map where the original's is
\* nil; the original is as it was; and the body of the loop of insert run
\* on any node of the copy for any part, and the whole loop run for any
\* sequence of parts, leave every node of the original as it was.
C30_CloneShape ==
    Settled =>
        LET live  == Reach(nodes, tree.root)
            copy_ == deepcopy(nodes, tree.root, 1)
            made  == Reach(copy_.nodes, copy_.root)
        IN  /\ made \cap DOMAIN nodes = {}
            /\ made = {CopyOf(x, 1) : x \in live}
            /\ copy_.root = CopyOf(tree.root, 1)
            /\ \A x \in live :
                   LET o == nodes[x]
                       c == copy_.nodes[CopyOf(x, 1)]
                   IN  /\ c.tid = o.tid
                       /\ c.conv = o.conv
                       /\ c.Methods = o.Methods
                       /\ c.ChildrenNil = o.ChildrenNil
                       /\ DOMAIN c.Children = DOMAIN o.Children
                       /\ \A k \in DOMAIN o.Children :
                              c.Children[k] = CopyOf(o.Children[k], 1)
            /\ \A x \in DOMAIN nodes : copy_.nodes[x] = nodes[x]
            /\ \A c \in made, part \in ValidParts :
                   LET s == insertPart(copy_.nodes, c, part, 1)
                   IN  \A x \in DOMAIN nodes : s.nodes[x] = nodes[x]
            /\ \A parts \in PartSeqs :
                   LET w == insertLoop(copy_.nodes, copy_.root, parts, 1, 1)
                   IN  \A x \in DOMAIN nodes : w.nodes[x] = nodes[x]

\* a Handle call has panicked with the duplicate error: its insert added
\* nothing to its copy and made it the live tree as deepcopy returned it, a
\* tree with a path param node, nodes with children and nodes with a nil
\* Children map
C30_Witness ==
    /\ last.op = "Handle"
    /\ last.err = ErrDuplicate
    /\ Routes = 2
    /\ \E x \in DOMAIN nodes : nodes[x].tid = param /\ nodes[x].conv # Nil
    /\ \E x \in DOMAIN nodes \ {tree.root} : ~nodes[x].ChildrenNil
    /\ \E x \in DOMAIN nodes : nodes[x].ChildrenNil /\ nodes[x].Methods # NilAddr

----------------------------------------------------------------------------
(* C31 *)

\* C31: when splitURL returns the error, it returns no part for a string
\* that does not start with a slash, and for a string that does it returns
\* every piece between the slashes, the empty ones as empty parts, with the
\* slash as the last part when the last piece is empty: a, empty, b for
\* /a//b and a, b, empty, slash for /a/b//.
C31_SplitURLError ==
    /\ (last.op = "splitURL" /\ last.err # Nil) =>
           LET url == last.args.url
           IN  IF Len(url) = 0 \/ url[1] # pathToken
               THEN last.parts = <<>>
               ELSE /\ last.parts = SegmentsOf(url)
                    /\ \E i \in 1..Len(last.parts) : last.parts[i] = <<>>
    /\ splitURL(<<"/", "a", "/", "/", "b">>)
           = [parts |-> << <<"a">>, <<>>, <<"b">> >>, err |-> ErrPattern]
    /\ splitURL(<<"/", "a", "/", "b", "/", "/">>)
           = [parts |-> << <<"a">>, <<"b">>, <<>>, <<pathToken>> >>,
              err |-> ErrPattern]

\* splitURL was given /a//b and returned the error with a, empty and b
C31_Witness ==
    /\ last.op = "splitURL"
    /\ last.args.url = <<"/", "a", "/", "/", "b">>
    /\ last.parts = << <<"a">>, <<>>, <<"b">> >>
    /\ last.err = ErrPattern

----------------------------------------------------------------------------
(* C32 *)

\* what two Handle calls in a row are given, handlers aside: a method and a
\* pattern each
Registrations == Methods \X Patterns

\* the live tree after a call of Handle on the tree t, as call g, with the
\* error of the call
After(t, R, handler, g) ==
    LET out == HandleCall(t.nodes, t.tables, t.root, R[1], R[2], handler, g)
    IN  [err |-> out.err, nodes |-> out.nodes, tables |-> out.tables,
         root |-> out.root]

\* C32: on every reachable tree that leaves room for two more routes, and
\* for every two registrations that differ in the method or in the pattern:
\* if the first and then the second both return, then the second and then
\* the first both return as well, and the two trees left are the same place
\* by place, kinds, converters, children and handler tables.
C32_OrderIndependent ==
    (Settled /\ Routes < MaxRoutes) =>
        \A R1 \in Registrations :
            LET h1 == Routes + 1
                h2 == Routes + 2
                s1 == After(Tree, R1, h1, 1)
            IN  s1.err = Nil =>
                    \A R2 \in Registrations \ {R1} :
                        LET s12 == After(s1, R2, h2, 2)
                            s2  == After(Tree, R2, h2, 1)
                            s21 == After(s2, R1, h1, 2)
                        IN  s12.err = Nil =>
                                /\ s2.err = Nil
                                /\ s21.err = Nil
                                /\ Settle(s21.nodes, s21.tables, s21.root)
                                   = Settle(s12.nodes, s12.tables, s12.root)

\* a Handle call has returned on /a, and from the tree it left the calls on
\* /a/:int and on /a/ both return, whichever is made first
C32_Witness ==
    /\ last.op = "Handle"
    /\ last.err = Nil
    /\ Routes = 1
    /\ \E route \in registered : route[2] = <<"/", "a">>
    /\ LET R1  == <<"PUT", <<"/", "a", "/", ":", "i", "n", "t">> >>
           R2  == <<"GET", <<"/", "a", "/">> >>
           s12 == After(After(Tree, R1, 2, 1), R2, 3, 2)
           s21 == After(After(Tree, R2, 3, 1), R1, 2, 2)
       IN  /\ s12.err = Nil
           /\ s21.err = Nil
           /\ Cardinality(DOMAIN s12.tables) = 3

----------------------------------------------------------------------------
(* C33 *)

\* no Handle call is in progress
AllReturned == \A r \in DOMAIN reg : reg[r].pc = "idle"

\* the route is in the live tree: the node at the end of its pattern's path
\* is below mix.tree.root and holds the route's handler for its method, and
\* Handler returns that handler for the pattern's requests
Kept(route) ==
    LET x == <<tree.root[1], KeysOf(splitURL(route[2]).parts)>>
    IN  /\ x \in Reach(nodes, tree.root)
        /\ HandlerAt(nodes, tables, x, route[1]) = route[3]
        /\ \A path \in Concrete(route[2], SegmentValues) :
               HandlerCall(nodes, tables, tree.root, route[1], path,
                           Background).h = route[3]

\* no two of the calls that returned were given the same pattern
DifferentPatterns ==
    \A a, b \in registered : a # b => a[2] # b[2]

\* no two of the calls that returned were given the same method and the
\* same pattern
DifferentRoutes ==
    \A a, b \in registered : a # b => <<a[1], a[2]>> # <<b[1], b[2]>>

----------------------------------------------------------------------------
(* C34 *)

\* the node NewServeMixer made as the root
FirstRoot == <<0, <<>>>>

\* C34 as stated: mix.tree.root is at all times the node that NewServeMixer
\* made.
C34_RootIdentity == tree.root = FirstRoot

\* C34: mix.tree.root changes in one step only, the assignment at the end
\* of an insert that succeeded, and there it always changes: it becomes the
\* root of the call's copy, a node of kind root that mix.tree has not held
\* before; the steps of a call that fails in its loop leave it alone, and
\* so does every step of Handler.  The node NewServeMixer made is never
\* written to.
C34_RootReplacedOnPublish ==
    [][ /\ tree'.root # tree.root =>
               \E r \in DOMAIN reg :
                   /\ reg[r].pc = "publish"
                   /\ reg'[r].pc = "check"
                   /\ tree'.root = reg[r].croot
                   /\ tree'.root \notin hist.published
                   /\ nodes'[tree'.root].tid = root
        /\ \A r \in DOMAIN reg :
               (reg[r].pc = "publish" /\ reg'[r].pc = "check") =>
                   tree'.root # tree.root
        /\ \A r \in DOMAIN reg :
               (reg[r].pc = "walk" /\ reg'[r].pc = "idle") =>
                   tree'.root = tree.root
        /\ disp' # disp => tree'.root = tree.root
        /\ nodes'[FirstRoot] = nodes[FirstRoot] ]_vars

\* a Handle call has returned and another has failed in its insert: the
\* root is the root of the copy of the first, not the node NewServeMixer
\* made
C34_Witness ==
    /\ tree.root # FirstRoot
    /\ hist.failed # {}
    /\ registered # {}
    /\ \A r \in DOMAIN reg : reg[r].pc = "idle"
    /\ tree.root[1] \notin hist.failed

----------------------------------------------------------------------------
(* C35 *)

\* C35: a call of Handler, whatever it returns, leaves mix.tree.root, every
\* node (kind, converter, handler table link, children, and whether the
\* Children map is nil) and every handler table as they were; what it
\* changes is the request's context.  The registry mix.converters is
\* written by NewServeMixer alone.
C35_DispatchReadOnly ==
    [][ last'.op = "Handler" =>
            /\ tree' = tree
            /\ DOMAIN nodes' = DOMAIN nodes
            /\ \A x \in DOMAIN nodes :
                   /\ nodes'[x].tid = nodes[x].tid
                   /\ nodes'[x].conv = nodes[x].conv
                   /\ nodes'[x].Methods = nodes[x].Methods
                   /\ nodes'[x].Children = nodes[x].Children
                   /\ nodes'[x].ChildrenNil = nodes[x].ChildrenNil
            /\ tables' = tables
            /\ registered' = registered ]_vars

\* a Handler call has returned a handler and has put two path params in the
\* request's context
C35_Witness ==
    /\ last.op = "Handler"
    /\ last.err = Nil
    /\ last.h # NilHandler
    /\ last.ctx.attached
    /\ DOMAIN last.ctx.params = {0, 1}
    /\ last.ctx0 # last.ctx

----------------------------------------------------------------------------
(* C36 *)

\* how far below its root a node is
Depth(x) == Len(x[2])

\* C36: every turn of the loop of Handler either ends the call or takes the
\* next part and moves one node down, and so does every turn of the loop of
\* insert, which makes the node when it is not there: after k turns the
\* call is at part k + 1 and at a node k below the root, no part is taken
\* twice and no node is come back to; with n parts the loop is left after
\* at most n turns, and Handler has returned after at most n reads of a
\* Children map and one read of a handler table.
C36_BoundedTraversal ==
    [][ /\ (disp.pc = "walk" /\ disp' # disp) =>
               \/ /\ disp'.pc = "idle"
                  /\ Len(disp'.obs) <= Len(disp.parts) + 1
               \/ /\ disp'.pc = "walk"
                  /\ disp'.parts = disp.parts
                  /\ disp.k <= Len(disp.parts)
                  /\ disp'.k = disp.k + 1
                  /\ Depth(disp.node) = disp.k - 1
                  /\ Depth(disp'.node) = disp.k
                  /\ disp'.node \in
                         {nodes[disp.node].Children[c] :
                              c \in DOMAIN nodes[disp.node].Children}
        /\ \A r \in DOMAIN reg :
               (reg[r].pc = "walk" /\ reg'[r] # reg[r]) =>
                   \/ reg'[r].pc = "idle"
                   \/ /\ reg'[r].pc = "publish"
                      /\ reg[r].i = Len(reg[r].parts) + 1
                      /\ Depth(reg[r].curr) = Len(reg[r].parts)
                   \/ /\ reg'[r].pc = "walk"
                      /\ reg'[r].parts = reg[r].parts
                      /\ reg[r].i <= Len(reg[r].parts)
                      /\ reg'[r].i = reg[r].i + 1
                      /\ Depth(reg[r].curr) = reg[r].i - 1
                      /\ Depth(reg'[r].curr) = reg[r].i
                      /\ reg'[r].curr[1] = reg[r].g
                      /\ reg'[r].curr \in
                             {nodes'[reg[r].curr].Children[c] :
                                  c \in DOMAIN nodes'[reg[r].curr].Children}
      ]_vars

\* a Handler call on a path of two parts has taken both and stands two
\* nodes below the root, while the insert of a Handle call on a pattern of
\* two parts has done the same in its copy
C36_Witness ==
    /\ disp.pc = "walk"
    /\ Len(disp.parts) = 2
    /\ disp.k = 3
    /\ Depth(disp.node) = 2
    /\ \E r \in DOMAIN reg :
           /\ reg[r].pc = "walk"
           /\ Len(reg[r].parts) = 2
           /\ reg[r].i = 3
           /\ Depth(reg[r].curr) = 2

====
